---- MODULE Spec2Model ----
\* A model of xmidt-org/medley: the consistent hash (package consistent) in its
\* two generations, the lock-protected mutable Hash and the immutable Ring that
\* is rebuilt by Update.
EXTENDS Integers, Sequences, FiniteSets, TLC

\* ------------------------------------------------------------------ bounds

\* Nodes (and services) are the one-byte strings "a", "b", ...: 1..MaxNode.
MaxNode == 2
\* The longest node list handed to Add, Remove or Rehash.
MaxList == 2
\* Concurrent callers of one Hash.
NumThreads == 2
\* Virtual nodes per node (Config.Vnodes / Builder.VNodes), at least 1.
Vnodes == 2
\* Keys are the one-byte strings 0..MaxKey.
MaxKey == 3
\* The hash values are taken modulo HashSpace (2^64 in the program).
HashSpace == 8

Nodes == 1..MaxNode
Threads == 1..NumThreads
Keys == 0..MaxKey

\* The zero value of Node, the empty string.
NilNode == 0
NoThread == 0

\* ------------------------------------------------------------ pure helpers

SwapOverwriting(s, i, j) == [s EXCEPT ![i] = s[j]]
Swap(s, i, j) == [s EXCEPT ![i] = s[j], ![j] = s[i]]

Range(s) == {s[i] : i \in 1..Len(s)}

Count(s, e) == Cardinality({i \in 1..Len(s) : s[i] = e})

IsPerm(s, t) ==
    /\ Len(s) = Len(t)
    /\ \A e \in Range(s) \cup Range(t) : Count(s, e) = Count(t, e)

\* All sequences over S of length at most n.
RECURSIVE SeqsUpTo(_, _)
SeqsUpTo(S, n) ==
    IF n = 0 THEN {<<>>}
    ELSE LET shorter == SeqsUpTo(S, n - 1)
         IN  shorter \cup {Append(s, e) : s \in {x \in shorter : Len(x) = n - 1}, e \in S}

NodeLists == SeqsUpTo(Nodes, MaxList)

\* ----------------------------------------------------------- hash algorithm

\* The bytes of a node: Node.WriteTo writes the string itself.
NodeBytes(n) == IF n = NilNode THEN <<>> ELSE <<96 + n>>

\* strconv.AppendInt(buf[:0], index, 10): the decimal digits of index.
RECURSIVE AppendInt(_)
AppendInt(i) ==
    IF i < 10 THEN <<48 + i>> ELSE Append(AppendInt(i \div 10), 48 + (i % 10))

\* The separator byte '=' (and ':', which it is not).
separatorColon == <<58>>
separator == <<61>>

\* A medley.Algorithm: a hash.Hash64 fed bytes one by one.  Extensions may
\* plug in any such function; this one is a small multiplicative hash.
HashOffset == 3
HashPrime == 5

RECURSIVE HashWrite(_, _)
HashWrite(h, bytes) ==
    IF bytes = <<>> THEN h
    ELSE HashWrite((h * HashPrime + Head(bytes)) % HashSpace, Tail(bytes))

Sum64(bytes) == HashWrite(HashOffset, bytes)

\* ComputeHash of a Bytes/String key.
ComputeHash(k) == Sum64(<<k>>)

\* assigner.next with the assigner at (node, index): hash of "<index>=<node>".
AssignerNext(node, index) == Sum64(AppendInt(index) \o separator \o NodeBytes(node))

\* --------------------------------------------------------------- the ring

hashEntry(n, v) == [Node |-> n, Value |-> v]

\* ring.Less on two entries: by Value, collisions by Node.
ringLessValueOnly(a, b) == a.Value < b.Value
ringLess(a, b) == a.Value < b.Value \/ (a.Value = b.Value /\ a.Node < b.Node)

\* ring.add
add(r, n, v) == Append(r, hashEntry(n, v))

\* ring.removeIf with the predicate NodeSet.Has of the set p: matching entries
\* are swapped to the tail and the slice is cut.
RECURSIVE removeIfLoop(_, _, _, _)
removeIfLoop(r, p, pos, end) ==
    IF pos > end THEN SubSeq(r, 1, end)
    ELSE IF r[pos].Node \in p
         THEN removeIfLoop(Swap(r, pos, end), p, pos, end - 1)
         ELSE removeIfLoop(r, p, pos + 1, end)

\* (a loop that moves on after a swap, past the entry brought from the tail)
RECURSIVE removeIfLoopSkipping(_, _, _, _)
removeIfLoopSkipping(r, p, pos, end) ==
    IF pos > end THEN SubSeq(r, 1, end)
    ELSE IF r[pos].Node \in p
         THEN removeIfLoopSkipping(Swap(r, pos, end), p, pos + 1, end - 1)
         ELSE removeIfLoopSkipping(r, p, pos + 1, end)

removeIfSkipping(r, p) == removeIfLoopSkipping(r, p, 1, Len(r))
removeIfFromSecond(r, p) == removeIfLoop(r, p, 2, Len(r))
removeIf(r, p) == removeIfLoop(r, p, 1, Len(r))

\* sort.Sort(ring): Less is a total order on entries, so the result is the
\* one sorted arrangement whatever the algorithm.
RECURSIVE Insert(_, _)
Insert(s, e) ==
    IF s = <<>> THEN <<e>>
    ELSE IF ringLess(e, Head(s)) THEN <<e>> \o s
         ELSE <<Head(s)>> \o Insert(Tail(s), e)

\* (each intermediate result is bound to a name, a, so that it is computed once)
RECURSIVE InsertAll(_, _)
InsertAll(acc, s) ==
    IF s = <<>> THEN acc
    ELSE CHOOSE out \in {InsertAll(a, Tail(s)) : a \in {Insert(acc, Head(s))}} : TRUE

sortSkipped(r) == r
sort(r) == InsertAll(<<>>, r)

\* sort.Search(n, f) with f(i) = (r[i].Value >= v), indices from 0.
RECURSIVE Search(_, _, _, _)
Search(r, v, i, j) ==
    IF i < j
    THEN LET h == (i + j) \div 2
         IN  IF ~(r[h + 1].Value >= v) THEN Search(r, v, h + 1, j)
             ELSE Search(r, v, i, h)
    ELSE i

\* ring.closest: [n, err]
closestStrictlyAfter(r, v) ==
    IF Len(r) > 0
    THEN LET p == Search(r, v + 1, 0, Len(r))
         IN  IF p < Len(r) THEN [n |-> r[p + 1].Node, err |-> "nil"]
             ELSE [n |-> r[1].Node, err |-> "nil"]
    ELSE [n |-> NilNode, err |-> "ErrEmpty"]
closestNoWrap(r, v) ==
    IF Len(r) > 0
    THEN LET p == Search(r, v, 0, Len(r))
         IN  IF p < Len(r) THEN [n |-> r[p + 1].Node, err |-> "nil"]
             ELSE [n |-> NilNode, err |-> "nil"]
    ELSE [n |-> NilNode, err |-> "ErrEmpty"]
closest(r, v) ==
    IF Len(r) > 0
    THEN LET p == Search(r, v, 0, Len(r))
         IN  IF p < Len(r) THEN [n |-> r[p + 1].Node, err |-> "nil"]
             ELSE [n |-> r[1].Node, err |-> "nil"]
    ELSE [n |-> NilNode, err |-> "ErrEmpty"]

\* ------------------------------------------------------------- the NodeSet

\* NodeSet.Filter: the slice is partitioned in place; the result is the
\* rearranged slice and the number of leading nodes that are in the set.
RECURSIVE FilterLoop(_, _, _, _)
FilterLoop(ns, list, i, j) ==
    IF i <= j
    THEN IF list[i] \in ns
         THEN FilterLoop(ns, list, i + 1, j)
         ELSE FilterLoop(ns, Swap(list, i, j), i, j - 1)
    ELSE [list |-> list, in |-> i - 1]

\* Two partitions that differ from Filter by one index: the node brought from
\* the end of the slice is not examined, and the last node is not examined.
RECURSIVE FilterLoopSkipping(_, _, _, _)
FilterLoopSkipping(ns, list, i, j) ==
    IF i <= j
    THEN IF list[i] \in ns
         THEN FilterLoopSkipping(ns, list, i + 1, j)
         ELSE FilterLoopSkipping(ns, Swap(list, i, j), i + 1, j - 1)
    ELSE [list |-> list, in |-> i - 1]

FilterSkipping(ns, list) == FilterLoopSkipping(ns, list, 1, Len(list))
FilterButLast(ns, list) == FilterLoop(ns, list, 1, Len(list) - 1)
Filter(ns, list) == FilterLoop(ns, list, 1, Len(list))

\* NewNodeSet, AddAll, RemoveAll on a set of nodes.
NewNodeSet(list) == Range(list)
AddAllNothing(ns, list) == ns
AddAll(ns, list) == ns \cup Range(list)
RemoveAll(ns, list) == ns \ Range(list)

\* ------------------------------------------------- the Ring of services

\* The longest service list handed to Services or Update, and the most Rings
\* created in one run.
MaxRings == 3

ServiceLists == SeqsUpTo(Nodes, MaxList)

node(token, service) == [token |-> token, service |-> service]

\* nodes.Less: by token alone.
nodesLess(a, b) == a.token < b.token

\* hasher.base with HashStringTo: the bytes of the string.
base(svc) == NodeBytes(svc)

\* hasher.serviceNodes: for each increment, hash of "<increment>=" then base.
RECURSIVE serviceNodesLoop(_, _, _)
serviceNodesLoop(svc, increment, snodes) ==
    IF increment < Vnodes
    THEN LET prefix == Append(AppendInt(increment), 61)
             token == HashWrite(HashWrite(HashOffset, prefix), base(svc))
         IN  serviceNodesLoop(svc, increment + 1, Append(snodes, node(token, svc)))
    ELSE snodes

serviceNodes(svc) == serviceNodesLoop(svc, 0, <<>>)

RemoveAt(s, i) == SubSeq(s, 1, i - 1) \o SubSeq(s, i + 1, Len(s))

RECURSIVE PermSeqs(_)
PermSeqs(s) ==
    IF s = <<>> THEN {<<>>}
    ELSE UNION {{<<s[i]>> \o p : p \in PermSeqs(RemoveAt(s, i))} : i \in 1..Len(s)}

\* sort.Sort(nodes): not a stable sort and Less looks at the token alone, so
\* nodes of equal token end in any order: every arrangement sorted by token.
RECURSIVE sortNodes(_)
sortNodes(ns) ==
    IF ns = <<>> THEN {<<>>}
    ELSE LET m == CHOOSE x \in {ns[i].token : i \in 1..Len(ns)} :
                      \A j \in 1..Len(ns) : x <= ns[j].token
             least == SelectSeq(ns, LAMBDA e : e.token = m)
             rest == SelectSeq(ns, LAMBDA e : e.token # m)
         IN  {g \o r : g \in PermSeqs(least), r \in sortNodes(rest)}

\* The services of a set in ascending order.
RECURSIVE Ascending(_)
Ascending(S) ==
    IF S = {} THEN <<>>
    ELSE LET m == CHOOSE x \in S : \A y \in S : x <= y
         IN  <<m>> \o Ascending(S \ {m})

\* Builder.Build's loop: cache and nodes for the services, one after the other.
RECURSIVE BuildLoop(_, _)
BuildLoop(list, r) ==
    IF list = <<>> THEN r
    ELSE LET svc == Head(list)
             snodes == serviceNodes(svc)
         IN  BuildLoop(Tail(list),
                       [cache |-> [s \in DOMAIN r.cache \cup {svc} |->
                                      IF s = svc THEN snodes ELSE r.cache[s]],
                        nodes |-> r.nodes \o snodes])

EmptyRing == [cache |-> [s \in {} |-> <<>>], nodes |-> <<>>]

\* Update's loop over current.cache.Update(services...): one Update per
\* service of the list, in order.
\* The body of the loop for one service: the nodes that go into the new Ring,
\* and whether hasher.serviceNodes was called to make them.
loopBodyRehashing(current, svc) ==
    [exists |-> svc \in DOMAIN current.cache, value |-> serviceNodes(svc), hashed |-> TRUE]
loopBody(current, svc) ==
    IF svc \in DOMAIN current.cache
    THEN [exists |-> TRUE, value |-> current.cache[svc], hashed |-> FALSE]
    ELSE [exists |-> FALSE, value |-> serviceNodes(svc), hashed |-> TRUE]

RECURSIVE UpdateLoop(_, _, _)
UpdateLoop(current, list, acc) ==
    IF list = <<>> THEN acc
    ELSE LET svc == Head(list)
             b == loopBody(current, svc)
         IN  UpdateLoop(current, Tail(list),
                 [cache |-> [s \in DOMAIN acc.cache \cup {svc} |->
                                IF s = svc THEN b.value ELSE acc.cache[s]],
                  nodes |-> acc.nodes \o b.value,
                  newCount |-> acc.newCount + (IF b.exists THEN 0 ELSE 1),
                  existingCount |-> acc.existingCount + (IF b.exists THEN 1 ELSE 0),
                  hashed |-> IF b.hashed THEN Append(acc.hashed, svc) ELSE acc.hashed])

\* updated = (newCount > 0 || existingCount != len(current.cache))
Updated(current, acc) ==
    acc.newCount > 0 \/ acc.existingCount # Cardinality(DOMAIN current.cache)

\* sort.Search(n, f) with f(p) = (nodes[p].token >= target), indices from 0.
RECURSIVE SearchNodes(_, _, _, _)
SearchNodes(ns, target, i, j) ==
    IF i < j
    THEN LET h == (i + j) \div 2
         IN  IF ~(ns[h + 1].token >= target) THEN SearchNodes(ns, target, h + 1, j)
             ELSE SearchNodes(ns, target, i, h)
    ELSE i

\* Ring.nearest: the first node at or after the target, the first node of all
\* when there is none.
nearestNoWrap(ns, target) ==
    LET i == SearchNodes(ns, target, 0, Len(ns))
    IN  IF i >= Len(ns) THEN node(0, NilNode) ELSE ns[i + 1]
nearest(ns, target) ==
    LET i == SearchNodes(ns, target, 0, Len(ns))
    IN  IF i >= Len(ns) THEN ns[1] ELSE ns[i + 1]

\* hasher.sum64 of the one-byte object k.
sum64(k) == Sum64(<<k>>)

\* ------------------------------------------------- sync.Mutex, sync.RWMutex

\* A RWMutex: the writer holding it, the writer that has announced itself and
\* waits for the readers to leave, and the readers holding it.
FreeRWMutex == [w |-> NoThread, pending |-> NoThread, readers |-> {}]

CanRLock(l) == l.w = NoThread /\ l.pending = NoThread
RLock(l, t) == [l EXCEPT !.readers = @ \cup {t}]
RUnlock(l, t) == [l EXCEPT !.readers = @ \ {t}]
CanLock(l) == l.w = NoThread /\ l.pending = NoThread
LockAnnounce(l, t) == [l EXCEPT !.pending = t]
CanLockAcquire(l, t) == l.pending = t /\ l.readers = {}
LockAcquire(l, t) == [l EXCEPT !.w = t, !.pending = NoThread]
Unlock(l, t) == [l EXCEPT !.w = NoThread]

\* ------------------------------------------------------------ the Locators

\* The objects handed to Find are the keys 1..MaxObject, and a MultiLocator
\* holds at most MaxLocators locators.
MaxObject == 2
MaxLocators == 3
Objects == 1..MaxObject

\* What Find of a Locator returns: a service and no error, or an error; one
\* kind of Locator returns a service together with its error.
Ok(s) == [svc |-> s, err |-> "nil"]
Failed(e) == [svc |-> NilNode, err |-> e]
Partial == [svc |-> 2, err |-> "ErrOther"]

\* errors.Is: the error itself, or an error that wraps it.
IsSame(err, target) == err = target
Unwrap(err) == IF err = "ErrWrapsNoServices" THEN "ErrNoServices" ELSE "nil"
Is(err, target) == err = target \/ (Unwrap(err) # "nil" /\ Unwrap(err) = target)

\* A Locator is what its Find returns for each object.  The Locators of the
\* model: for each object every kind of result comes from one of them, and
\* each of them returns another result for the next object.
Outcomes ==
    <<Ok(1), Ok(2), Failed("ErrNoServices"), Failed("ErrWrapsNoServices"),
      Failed("ErrFailed"), Partial>>
Locators ==
    {[object \in Objects |-> Outcomes[((i + object - 1) % Len(Outcomes)) + 1]] :
        i \in 0..(Len(Outcomes) - 1)}

\* The nil Locator, and no Locator at all.
NilLocator == <<>>

\* l.Find(object)
LocatorFind(l, object) == l[object]

\* return nil, findErr, at the locator at i
haltKeepingFound(found, f, i) == [services |-> found, err |-> f.err, consulted |-> i]
halt(found, f, i) == [services |-> <<>>, err |-> f.err, consulted |-> i]

\* The loop of MultiLocator.Find from the locator at i on, and its return:
\* the services, the error and the number of locators consulted.
RECURSIVE MultiFindLoop(_, _, _, _)
MultiFindLoop(ls, object, i, found) ==
    IF i > Len(ls)
    THEN IF Len(found) = 0
         THEN [services |-> <<>>, err |-> "ErrNoServices", consulted |-> Len(ls)]
         ELSE [services |-> found, err |-> "nil", consulted |-> Len(ls)]
    ELSE LET f == LocatorFind(ls[i], object)
         IN  IF f.err = "nil"
             THEN MultiFindLoop(ls, object, i + 1, Append(found, f.svc))
             ELSE IF ~Is(f.err, "ErrNoServices")
                  THEN halt(found, f, i)
                  ELSE MultiFindLoop(ls, object, i + 1, found)

MultiFind(ls, object) == MultiFindLoop(ls, object, 1, <<>>)

\* The loop of MultiLocator.Remove: the first locator equal to l gives its
\* place to the last one, and the slice loses its last element.
RemoveFirst(ls, l) ==
    IF \E i \in 1..Len(ls) : ls[i] = l
    THEN LET i == CHOOSE x \in 1..Len(ls) :
                      ls[x] = l /\ \A y \in 1..(x - 1) : ls[y] # l
             last == Len(ls)
         IN  SubSeq([ls EXCEPT ![i] = ls[last]], 1, last - 1)
    ELSE ls

\* UpdatableLocator.Set: what the pointer p holds after Set(l).
StoredUnlessNil(p, l) == IF l = NilLocator THEN p ELSE l
Stored(p, l) == l

\* UpdatableLocator.Find
UpdatableFind(p, object) ==
    IF p # NilLocator THEN LocatorFind(p, object) ELSE Failed("ErrNoServices")

\* ------------------------------------------------------------------ state

VARIABLES
    obj,        \* the object the program works on: "Hash" or "Ring"
    nodes,      \* Hash.nodes
    ring,       \* Hash.ring
    assigner,   \* Hash.assigner: the node of the last reset and the index
    updateLock, \* Hash.updateLock: the thread holding it
    nodeLock,   \* Hash.nodeLock
    thr,        \* each caller: its position and the locals of its call
    pre,        \* nodes and ring when the update lock was last free
    last,       \* history, kept for one caller only: the last completed
                \* mutation and the nodes it was given
    services,   \* Builder.services
    rings,      \* the Rings created so far; a *Ring is an index of this sequence
    res,        \* the last call: its arguments and results
    locators,   \* MultiLocator.locators
    impl,       \* UpdatableLocator.impl: the Locator pointed to, or none
    lock,       \* MultiLocator.lock
    calls,      \* each caller of a MultiLocator: its position and its locals
    hb,         \* HashBuilder: dst, the destination in use, and err
    written     \* the bytes the destination in use has taken

hashVars == <<nodes, ring, assigner, updateLock, nodeLock, thr, pre, last>>
ringVars == <<services, rings, res>>
multiVars == <<lock, calls>>
locVars == <<locators, impl, multiVars>>
hbVars == <<hb, written>>
vars == <<obj, hashVars, ringVars, locVars, hbVars>>

IdleThread ==
    [pc |-> "idle", op |-> "none", arg |-> <<>>, in |-> 0, i |-> 0, r |-> 0,
     rehash |-> {}, toAdd |-> {}, toRemove |-> {}, added |-> 0, removed |-> 0,
     key |-> 0, keyOk |-> TRUE, n |-> NilNode, err |-> "nil", l |-> 0]

\* The nodes of a list as a bag.
BagOf(list) == [n \in Nodes |-> Count(list, n)]
NoBag == [n \in Nodes |-> 0]

\* New(cfg) with a known algorithm: no nodes, an empty ring.
New ==
    /\ nodes = {}
    /\ ring = <<>>
    /\ assigner = [node |-> NilNode, index |-> 0]
    /\ updateLock = NoThread
    /\ nodeLock = FreeRWMutex
    /\ pre = [nodes |-> {}, ring |-> <<>>]

\* The callers of a Hash shared by all the threads.
AllCallers ==
    /\ thr = [t \in Threads |-> IdleThread]
    /\ last = [op |-> "untracked", bag |-> NoBag]

\* One caller, which makes its calls one after the other.
OneCaller ==
    /\ thr = [t \in Threads |-> IF t = 1 THEN IdleThread ELSE [IdleThread EXCEPT !.pc = "off"]]
    /\ last = [op |-> "none", bag |-> NoBag]

NoRes ==
    [op |-> "none", current |-> 0, list |-> <<>>, next |-> 0, updated |-> FALSE,
     hashed |-> <<>>, key |-> 0, svc |-> NilNode, err |-> "nil",
     given |-> {}, built |-> {}]

\* new(Builder): no services, and no Ring yet.
NewBuilder ==
    /\ services = {}
    /\ rings = <<>>
    /\ res = NoRes

\* A caller of a MultiLocator that is in no call; before is the locator list
\* when the call took the lock.
IdleCall ==
    [pc |-> "idle", op |-> "none", l |-> NilLocator, object |-> 0, i |-> 0, n |-> 0,
     found |-> <<>>, out |-> [services |-> <<>>, err |-> "nil", consulted |-> 0],
     before |-> <<>>]

\* The zero values of MultiLocator and UpdatableLocator.
ZeroLocators ==
    /\ locators = <<>>
    /\ impl = NilLocator
    /\ lock = FreeRWMutex
    /\ calls = [t \in Threads |-> IdleCall]

\* new(HashBuilder): no destination, no error.
ZeroHashBuilder ==
    /\ hb = [dst |-> 0, err |-> "nil"]
    /\ written = <<>>

\* A Hash shared by all the threads.
InitHash == obj = "Hash" /\ New /\ AllCallers /\ NewBuilder /\ ZeroLocators /\ ZeroHashBuilder

\* A Hash used by one thread.
InitHashSeq == obj = "Hash" /\ New /\ OneCaller /\ NewBuilder /\ ZeroLocators /\ ZeroHashBuilder

\* A Builder and the Rings made from it.
InitRing == obj = "Ring" /\ New /\ AllCallers /\ NewBuilder /\ ZeroLocators /\ ZeroHashBuilder

At(t, p) == obj = "Hash" /\ thr[t].pc = p
Goto(t, rec) == thr' = [thr EXCEPT ![t] = rec]

\* in and notIn of the caller's slice after Filter
InOf(t) == SubSeq(thr[t].arg, 1, thr[t].in)
NotInOf(t) == SubSeq(thr[t].arg, thr[t].in + 1, Len(thr[t].arg))

\* The deferred updateLock.Unlock, the last step of every mutation.
UnlockUpdate(t) ==
    /\ updateLock' = NoThread
    /\ pre' = [nodes |-> nodes, ring |-> ring]
    /\ last' = IF last.op = "untracked" THEN last
               ELSE [op |-> thr[t].op,
                     bag |-> IF thr[t].op = "Rehash" THEN NoBag ELSE BagOf(thr[t].arg)]
    /\ Goto(t, IdleThread)
    /\ UNCHANGED <<obj, hbVars, locVars, ringVars, nodes, ring, assigner, nodeLock>>

\* -------------------------------------------------------------- Hash.Add

AddNoLockUpdate(t, list) ==
    /\ At(t, "idle")
    /\ Goto(t, [IdleThread EXCEPT !.pc = "AddRLock", !.op = "Add", !.arg = list])
    /\ UNCHANGED <<obj, hbVars, locVars, ringVars, nodes, ring, assigner, updateLock, nodeLock, pre, last>>

\* The call and its first statement, h.updateLock.Lock().
AddLockUpdate(t, list) ==
    /\ At(t, "idle")
    /\ updateLock = NoThread
    /\ updateLock' = t
    /\ Goto(t, [IdleThread EXCEPT !.pc = "AddRLock", !.op = "Add", !.arg = list])
    /\ UNCHANGED <<obj, hbVars, locVars, ringVars, nodes, ring, assigner, nodeLock, pre, last>>

AddRLock(t) ==
    /\ At(t, "AddRLock")
    /\ CanRLock(nodeLock)
    /\ nodeLock' = RLock(nodeLock, t)
    /\ Goto(t, [thr[t] EXCEPT !.pc = "AddFilter"])
    /\ UNCHANGED <<obj, hbVars, locVars, ringVars, nodes, ring, assigner, updateLock, pre, last>>

AddFilter(t) ==
    /\ At(t, "AddFilter")
    /\ LET f == Filter(nodes, thr[t].arg)
       IN  Goto(t, [thr[t] EXCEPT !.pc = "AddRUnlock", !.arg = f.list, !.in = f.in])
    /\ UNCHANGED <<obj, hbVars, locVars, ringVars, nodes, ring, assigner, updateLock, nodeLock, pre, last>>

AddReturnBeforeRUnlock(t) ==
    /\ At(t, "AddRUnlock")
    /\ LET added == Len(NotInOf(t))
       IN  /\ nodeLock' = IF added = 0 THEN nodeLock ELSE RUnlock(nodeLock, t)
           /\ Goto(t, [thr[t] EXCEPT !.added = added,
                                      !.pc = IF added = 0 THEN "AddUnlockUpdate" ELSE "AddLock"])
    /\ UNCHANGED <<obj, hbVars, locVars, ringVars, nodes, ring, assigner, updateLock, pre, last>>

AddNoEarlyReturn(t) ==
    /\ At(t, "AddRUnlock")
    /\ nodeLock' = RUnlock(nodeLock, t)
    /\ Goto(t, [thr[t] EXCEPT !.added = Len(NotInOf(t)), !.pc = "AddLock"])
    /\ UNCHANGED <<obj, hbVars, locVars, ringVars, nodes, ring, assigner, updateLock, pre, last>>

\* RUnlock, added = len(notIn), and the early return when nothing is new.
AddRUnlock(t) ==
    /\ At(t, "AddRUnlock")
    /\ nodeLock' = RUnlock(nodeLock, t)
    /\ LET added == Len(NotInOf(t))
       IN  Goto(t, [thr[t] EXCEPT !.added = added,
                                  !.pc = IF added = 0 THEN "AddUnlockUpdate" ELSE "AddLock"])
    /\ UNCHANGED <<obj, hbVars, locVars, ringVars, nodes, ring, assigner, updateLock, pre, last>>

AddNoLock(t) ==
    /\ At(t, "AddLock")
    /\ Goto(t, [thr[t] EXCEPT !.pc = "AddReset", !.i = thr[t].in + 1])
    /\ UNCHANGED <<obj, hbVars, locVars, ringVars, nodes, ring, assigner, updateLock, nodeLock, pre, last>>

AddLock(t) ==
    /\ At(t, "AddLock")
    /\ CanLock(nodeLock)
    /\ nodeLock' = LockAnnounce(nodeLock, t)
    /\ Goto(t, [thr[t] EXCEPT !.pc = "AddLockAcquire"])
    /\ UNCHANGED <<obj, hbVars, locVars, ringVars, nodes, ring, assigner, updateLock, pre, last>>

\* The write lock is held; ring.grow reserves capacity only.
AddLockAcquire(t) ==
    /\ At(t, "AddLockAcquire")
    /\ CanLockAcquire(nodeLock, t)
    /\ nodeLock' = LockAcquire(nodeLock, t)
    /\ Goto(t, [thr[t] EXCEPT !.pc = "AddReset", !.i = thr[t].in + 1])
    /\ UNCHANGED <<obj, hbVars, locVars, ringVars, nodes, ring, assigner, updateLock, pre, last>>

\* for _, n := range notIn { h.assigner.reset(n) ...
AddReset(t) ==
    /\ At(t, "AddReset")
    /\ assigner' = [node |-> thr[t].arg[thr[t].i], index |-> 0]
    /\ Goto(t, [thr[t] EXCEPT !.pc = "AddNext", !.r = 0])
    /\ UNCHANGED <<obj, hbVars, locVars, ringVars, nodes, ring, updateLock, nodeLock, pre, last>>

\* ... h.ring.add(n, h.assigner.next()), vnodes times per node
AddNext(t) ==
    /\ At(t, "AddNext")
    /\ ring' = add(ring, thr[t].arg[thr[t].i], AssignerNext(assigner.node, assigner.index))
    /\ assigner' = [assigner EXCEPT !.index = @ + 1]
    /\ IF thr[t].r + 1 < Vnodes
       THEN Goto(t, [thr[t] EXCEPT !.r = @ + 1])
       ELSE Goto(t, [thr[t] EXCEPT !.r = 0, !.i = @ + 1,
                                   !.pc = IF thr[t].i + 1 > Len(thr[t].arg)
                                          THEN "AddAddAll" ELSE "AddReset"])
    /\ UNCHANGED <<obj, hbVars, locVars, ringVars, nodes, updateLock, nodeLock, pre, last>>

AddAddAll(t) ==
    /\ At(t, "AddAddAll")
    /\ nodes' = AddAll(nodes, NotInOf(t))
    /\ Goto(t, [thr[t] EXCEPT !.pc = "AddSort"])
    /\ UNCHANGED <<obj, hbVars, locVars, ringVars, ring, assigner, updateLock, nodeLock, pre, last>>

AddSort(t) ==
    /\ At(t, "AddSort")
    /\ ring' = sort(ring)
    /\ Goto(t, [thr[t] EXCEPT !.pc = "AddUnlock"])
    /\ UNCHANGED <<obj, hbVars, locVars, ringVars, nodes, assigner, updateLock, nodeLock, pre, last>>

AddUnlock(t) ==
    /\ At(t, "AddUnlock")
    /\ nodeLock' = Unlock(nodeLock, t)
    /\ Goto(t, [thr[t] EXCEPT !.pc = "AddUnlockUpdate"])
    /\ UNCHANGED <<obj, hbVars, locVars, ringVars, nodes, ring, assigner, updateLock, pre, last>>

AddUnlockUpdate(t) ==
    /\ At(t, "AddUnlockUpdate")
    /\ UnlockUpdate(t)

\* ----------------------------------------------------------- Hash.Remove

\* The call and its first statement, h.updateLock.Lock().
RemoveLockUpdate(t, list) ==
    /\ At(t, "idle")
    /\ updateLock = NoThread
    /\ updateLock' = t
    /\ Goto(t, [IdleThread EXCEPT !.pc = "RemoveRLock", !.op = "Remove", !.arg = list])
    /\ UNCHANGED <<obj, hbVars, locVars, ringVars, nodes, ring, assigner, nodeLock, pre, last>>

RemoveRLock(t) ==
    /\ At(t, "RemoveRLock")
    /\ CanRLock(nodeLock)
    /\ nodeLock' = RLock(nodeLock, t)
    /\ Goto(t, [thr[t] EXCEPT !.pc = "RemoveFilter"])
    /\ UNCHANGED <<obj, hbVars, locVars, ringVars, nodes, ring, assigner, updateLock, pre, last>>

RemoveFilter(t) ==
    /\ At(t, "RemoveFilter")
    /\ LET f == Filter(nodes, thr[t].arg)
       IN  Goto(t, [thr[t] EXCEPT !.pc = "RemoveRUnlock", !.arg = f.list, !.in = f.in])
    /\ UNCHANGED <<obj, hbVars, locVars, ringVars, nodes, ring, assigner, updateLock, nodeLock, pre, last>>

\* RUnlock, removed = len(in), the early return, toRemove = NewNodeSet(in...)
RemoveRUnlock(t) ==
    /\ At(t, "RemoveRUnlock")
    /\ nodeLock' = RUnlock(nodeLock, t)
    /\ LET removed == Len(InOf(t))
       IN  Goto(t, [thr[t] EXCEPT !.removed = removed,
                                  !.toRemove = NewNodeSet(InOf(t)),
                                  !.pc = IF removed = 0 THEN "RemoveUnlockUpdate"
                                         ELSE "RemoveLock"])
    /\ UNCHANGED <<obj, hbVars, locVars, ringVars, nodes, ring, assigner, updateLock, pre, last>>

RemoveLock(t) ==
    /\ At(t, "RemoveLock")
    /\ CanLock(nodeLock)
    /\ nodeLock' = LockAnnounce(nodeLock, t)
    /\ Goto(t, [thr[t] EXCEPT !.pc = "RemoveLockAcquire"])
    /\ UNCHANGED <<obj, hbVars, locVars, ringVars, nodes, ring, assigner, updateLock, pre, last>>

RemoveLockAcquire(t) ==
    /\ At(t, "RemoveLockAcquire")
    /\ CanLockAcquire(nodeLock, t)
    /\ nodeLock' = LockAcquire(nodeLock, t)
    /\ Goto(t, [thr[t] EXCEPT !.pc = "RemoveRemoveAll"])
    /\ UNCHANGED <<obj, hbVars, locVars, ringVars, nodes, ring, assigner, updateLock, pre, last>>

RemoveRemoveAll(t) ==
    /\ At(t, "RemoveRemoveAll")
    /\ nodes' = RemoveAll(nodes, InOf(t))
    /\ Goto(t, [thr[t] EXCEPT !.pc = "RemoveRemoveIf"])
    /\ UNCHANGED <<obj, hbVars, locVars, ringVars, ring, assigner, updateLock, nodeLock, pre, last>>

RemoveRemoveIf(t) ==
    /\ At(t, "RemoveRemoveIf")
    /\ ring' = removeIf(ring, thr[t].toRemove)
    /\ Goto(t, [thr[t] EXCEPT !.pc = "RemoveSort"])
    /\ UNCHANGED <<obj, hbVars, locVars, ringVars, nodes, assigner, updateLock, nodeLock, pre, last>>

RemoveSort(t) ==
    /\ At(t, "RemoveSort")
    /\ ring' = sort(ring)
    /\ Goto(t, [thr[t] EXCEPT !.pc = "RemoveUnlock"])
    /\ UNCHANGED <<obj, hbVars, locVars, ringVars, nodes, assigner, updateLock, nodeLock, pre, last>>

RemoveUnlock(t) ==
    /\ At(t, "RemoveUnlock")
    /\ nodeLock' = Unlock(nodeLock, t)
    /\ Goto(t, [thr[t] EXCEPT !.pc = "RemoveUnlockUpdate"])
    /\ UNCHANGED <<obj, hbVars, locVars, ringVars, nodes, ring, assigner, updateLock, pre, last>>

RemoveUnlockUpdate(t) ==
    /\ At(t, "RemoveUnlockUpdate")
    /\ UnlockUpdate(t)

\* ----------------------------------------------------------- Hash.Rehash

RehashNoLockUpdate(t, list) ==
    /\ At(t, "idle")
    /\ Goto(t, [IdleThread EXCEPT !.pc = "RehashRLock", !.op = "Rehash", !.arg = list])
    /\ UNCHANGED <<obj, hbVars, locVars, ringVars, nodes, ring, assigner, updateLock, nodeLock, pre, last>>

\* The call and its first statement, h.updateLock.Lock().
RehashLockUpdate(t, list) ==
    /\ At(t, "idle")
    /\ updateLock = NoThread
    /\ updateLock' = t
    /\ Goto(t, [IdleThread EXCEPT !.pc = "RehashRLock", !.op = "Rehash", !.arg = list])
    /\ UNCHANGED <<obj, hbVars, locVars, ringVars, nodes, ring, assigner, nodeLock, pre, last>>

RehashRLock(t) ==
    /\ At(t, "RehashRLock")
    /\ CanRLock(nodeLock)
    /\ nodeLock' = RLock(nodeLock, t)
    /\ Goto(t, [thr[t] EXCEPT !.pc = "RehashDiff"])
    /\ UNCHANGED <<obj, hbVars, locVars, ringVars, nodes, ring, assigner, updateLock, pre, last>>

\* rehash = NewNodeSet(nodes...), toRemove = h.nodes - rehash, toAdd = rehash - h.nodes
RehashDiff(t) ==
    /\ At(t, "RehashDiff")
    /\ LET rehash == NewNodeSet(thr[t].arg)
       IN  Goto(t, [thr[t] EXCEPT !.pc = "RehashRUnlock",
                                  !.rehash = rehash,
                                  !.toRemove = {n \in nodes : n \notin rehash},
                                  !.toAdd = {n \in rehash : n \notin nodes}])
    /\ UNCHANGED <<obj, hbVars, locVars, ringVars, nodes, ring, assigner, updateLock, nodeLock, pre, last>>

RehashLockBeforeRUnlock(t) ==
    /\ At(t, "RehashRUnlock")
    /\ LET added == Cardinality(thr[t].toAdd)
           removed == Cardinality(thr[t].toRemove)
       IN  /\ nodeLock' = IF removed = 0 /\ added = 0 THEN RUnlock(nodeLock, t)
                           ELSE nodeLock
           /\ Goto(t, [thr[t] EXCEPT !.added = added, !.removed = removed,
                                      !.pc = IF removed = 0 /\ added = 0
                                             THEN "RehashUnlockUpdate" ELSE "RehashLock"])
    /\ UNCHANGED <<obj, hbVars, locVars, ringVars, nodes, ring, assigner, updateLock, pre, last>>

\* RUnlock, the two counts, and the early return when both are 0.
RehashRUnlock(t) ==
    /\ At(t, "RehashRUnlock")
    /\ nodeLock' = RUnlock(nodeLock, t)
    /\ LET added == Cardinality(thr[t].toAdd)
           removed == Cardinality(thr[t].toRemove)
       IN  Goto(t, [thr[t] EXCEPT !.added = added, !.removed = removed,
                                  !.pc = IF removed = 0 /\ added = 0
                                         THEN "RehashUnlockUpdate" ELSE "RehashLock"])
    /\ UNCHANGED <<obj, hbVars, locVars, ringVars, nodes, ring, assigner, updateLock, pre, last>>

RehashLock(t) ==
    /\ At(t, "RehashLock")
    /\ CanLock(nodeLock)
    /\ nodeLock' = LockAnnounce(nodeLock, t)
    /\ Goto(t, [thr[t] EXCEPT !.pc = "RehashLockAcquire"])
    /\ UNCHANGED <<obj, hbVars, locVars, ringVars, nodes, ring, assigner, updateLock, pre, last>>

RehashLockAcquire(t) ==
    /\ At(t, "RehashLockAcquire")
    /\ CanLockAcquire(nodeLock, t)
    /\ nodeLock' = LockAcquire(nodeLock, t)
    /\ Goto(t, [thr[t] EXCEPT !.pc = "RehashRemoveIf"])
    /\ UNCHANGED <<obj, hbVars, locVars, ringVars, nodes, ring, assigner, updateLock, pre, last>>

\* if removed > 0 { h.ring.removeIf(toRemove.Has) }; grow reserves capacity only
RehashRemoveIf(t) ==
    /\ At(t, "RehashRemoveIf")
    /\ ring' = IF thr[t].removed > 0 THEN removeIf(ring, thr[t].toRemove) ELSE ring
    /\ Goto(t, [thr[t] EXCEPT !.pc = IF thr[t].added > 0 THEN "RehashReset"
                                     ELSE "RehashAssign"])
    /\ UNCHANGED <<obj, hbVars, locVars, ringVars, nodes, assigner, updateLock, nodeLock, pre, last>>

\* for n := range toAdd { h.assigner.reset(n) ...: a map is ranged over in any
\* order; toAdd holds the nodes not yet visited.
RehashReset(t) ==
    /\ At(t, "RehashReset")
    /\ \E n \in thr[t].toAdd :
         /\ assigner' = [node |-> n, index |-> 0]
         /\ Goto(t, [thr[t] EXCEPT !.pc = "RehashNext", !.r = 0, !.n = n,
                                   !.toAdd = @ \ {n}])
    /\ UNCHANGED <<obj, hbVars, locVars, ringVars, nodes, ring, updateLock, nodeLock, pre, last>>

RehashNext(t) ==
    /\ At(t, "RehashNext")
    /\ ring' = add(ring, thr[t].n, AssignerNext(assigner.node, assigner.index))
    /\ assigner' = [assigner EXCEPT !.index = @ + 1]
    /\ IF thr[t].r + 1 < Vnodes
       THEN Goto(t, [thr[t] EXCEPT !.r = @ + 1])
       ELSE Goto(t, [thr[t] EXCEPT !.r = 0, !.n = NilNode,
                                   !.pc = IF thr[t].toAdd = {} THEN "RehashAssign"
                                          ELSE "RehashReset"])
    /\ UNCHANGED <<obj, hbVars, locVars, ringVars, nodes, updateLock, nodeLock, pre, last>>

\* h.nodes = rehash
RehashAssign(t) ==
    /\ At(t, "RehashAssign")
    /\ nodes' = thr[t].rehash
    /\ Goto(t, [thr[t] EXCEPT !.pc = "RehashSort"])
    /\ UNCHANGED <<obj, hbVars, locVars, ringVars, ring, assigner, updateLock, nodeLock, pre, last>>

RehashSort(t) ==
    /\ At(t, "RehashSort")
    /\ ring' = sort(ring)
    /\ Goto(t, [thr[t] EXCEPT !.pc = "RehashUnlock"])
    /\ UNCHANGED <<obj, hbVars, locVars, ringVars, nodes, assigner, updateLock, nodeLock, pre, last>>

RehashUnlock(t) ==
    /\ At(t, "RehashUnlock")
    /\ nodeLock' = Unlock(nodeLock, t)
    /\ Goto(t, [thr[t] EXCEPT !.pc = "RehashUnlockUpdate"])
    /\ UNCHANGED <<obj, hbVars, locVars, ringVars, nodes, ring, assigner, updateLock, pre, last>>

RehashUnlockUpdate(t) ==
    /\ At(t, "RehashUnlockUpdate")
    /\ UnlockUpdate(t)

\* -------------------------------------------------------------- Hash.Get

GetNoRLock(t, k, ok) ==
    /\ At(t, "idle")
    /\ Goto(t, [IdleThread EXCEPT !.pc = "GetLen", !.op = "Get", !.key = k, !.keyOk = ok])
    /\ UNCHANGED <<obj, hbVars, locVars, ringVars, nodes, ring, assigner, updateLock, nodeLock, pre, last>>

GetAfterUpdate(t, k, ok) ==
    /\ At(t, "idle")
    /\ updateLock = NoThread
    /\ CanRLock(nodeLock)
    /\ nodeLock' = RLock(nodeLock, t)
    /\ Goto(t, [IdleThread EXCEPT !.pc = "GetLen", !.op = "Get", !.key = k, !.keyOk = ok])
    /\ UNCHANGED <<obj, hbVars, locVars, ringVars, nodes, ring, assigner, updateLock, pre, last>>

GetExclusive(t, k, ok) ==
    /\ At(t, "idle")
    /\ CanRLock(nodeLock)
    /\ nodeLock.readers = {}
    /\ nodeLock' = RLock(nodeLock, t)
    /\ Goto(t, [IdleThread EXCEPT !.pc = "GetLen", !.op = "Get", !.key = k, !.keyOk = ok])
    /\ UNCHANGED <<obj, hbVars, locVars, ringVars, nodes, ring, assigner, updateLock, pre, last>>

\* The call, with a key and whether its WriteTo succeeds, and h.nodeLock.RLock().
GetRLock(t, k, ok) ==
    /\ At(t, "idle")
    /\ CanRLock(nodeLock)
    /\ nodeLock' = RLock(nodeLock, t)
    /\ Goto(t, [IdleThread EXCEPT !.pc = "GetLen", !.op = "Get", !.key = k, !.keyOk = ok])
    /\ UNCHANGED <<obj, hbVars, locVars, ringVars, nodes, ring, assigner, updateLock, pre, last>>

\* if h.ring.Len() > 0 { _, err = k.WriteTo(hasher) ... } else { err = ErrEmpty }
GetLen(t) ==
    /\ At(t, "GetLen")
    /\ Goto(t, [thr[t] EXCEPT
            !.err = IF Len(ring) > 0 THEN (IF thr[t].keyOk THEN "nil" ELSE "ErrWrite")
                    ELSE "ErrEmpty",
            !.pc = IF Len(ring) > 0 /\ thr[t].keyOk THEN "GetClosest" ELSE "GetRUnlock"])
    /\ UNCHANGED <<obj, hbVars, locVars, ringVars, nodes, ring, assigner, updateLock, nodeLock, pre, last>>

\* n, err = h.ring.closest(hasher.Sum64())
GetClosest(t) ==
    /\ At(t, "GetClosest")
    /\ LET c == closest(ring, ComputeHash(thr[t].key))
       IN  Goto(t, [thr[t] EXCEPT !.n = c.n, !.err = c.err, !.pc = "GetRUnlock"])
    /\ UNCHANGED <<obj, hbVars, locVars, ringVars, nodes, ring, assigner, updateLock, nodeLock, pre, last>>

\* the deferred RUnlock and the return
GetRUnlock(t) ==
    /\ At(t, "GetRUnlock")
    /\ nodeLock' = RUnlock(nodeLock, t)
    /\ Goto(t, IdleThread)
    /\ UNCHANGED <<obj, hbVars, locVars, ringVars, nodes, ring, assigner, updateLock, pre, last>>

\* -------------------------------------------------------------- Hash.Len

\* The call and h.nodeLock.RLock().
LenRLock(t) ==
    /\ At(t, "idle")
    /\ CanRLock(nodeLock)
    /\ nodeLock' = RLock(nodeLock, t)
    /\ Goto(t, [IdleThread EXCEPT !.pc = "LenLen", !.op = "Len"])
    /\ UNCHANGED <<obj, hbVars, locVars, ringVars, nodes, ring, assigner, updateLock, pre, last>>

\* l = h.nodes.Len()
LenLen(t) ==
    /\ At(t, "LenLen")
    /\ Goto(t, [thr[t] EXCEPT !.l = Cardinality(nodes), !.pc = "LenRUnlock"])
    /\ UNCHANGED <<obj, hbVars, locVars, ringVars, nodes, ring, assigner, updateLock, nodeLock, pre, last>>

\* h.nodeLock.RUnlock() and the return
LenRUnlock(t) ==
    /\ At(t, "LenRUnlock")
    /\ nodeLock' = RUnlock(nodeLock, t)
    /\ Goto(t, IdleThread)
    /\ UNCHANGED <<obj, hbVars, locVars, ringVars, nodes, ring, assigner, updateLock, pre, last>>

\* ------------------------------------- the mutations, run without interruption

\* The entries Add and Rehash append for the nodes of a list: for each node
\* assigner.reset and then vnodes times ring.add(n, assigner.next()).
RECURSIVE entriesOfNode(_, _)
entriesOfNode(n, r) ==
    IF r < Vnodes THEN <<hashEntry(n, AssignerNext(n, r))>> \o entriesOfNode(n, r + 1)
    ELSE <<>>

RECURSIVE entriesOfList(_)
entriesOfList(list) ==
    IF list = <<>> THEN <<>>
    ELSE entriesOfNode(Head(list), 0) \o entriesOfList(Tail(list))

\* Hash.Add from its first statement to its return, no other call in between.
AddAlone(ns, r, list) ==
    LET f == Filter(ns, list)
        notIn == SubSeq(f.list, f.in + 1, Len(f.list))
    IN  IF Len(notIn) = 0
        THEN [nodes |-> ns, ring |-> r, added |-> 0, removed |-> 0]
        ELSE [nodes |-> AddAll(ns, notIn),
              ring |-> sort(r \o entriesOfList(notIn)),
              added |-> Len(notIn), removed |-> 0]

\* Hash.Remove from its first statement to its return.
RemoveAlone(ns, r, list) ==
    LET f == Filter(ns, list)
        in == SubSeq(f.list, 1, f.in)
    IN  IF Len(in) = 0
        THEN [nodes |-> ns, ring |-> r, added |-> 0, removed |-> 0]
        ELSE [nodes |-> RemoveAll(ns, in),
              ring |-> sort(removeIf(r, NewNodeSet(in))),
              added |-> 0, removed |-> Len(in)]

\* Hash.Rehash from its first statement to its return.  The order in which
\* toAdd is ranged over is immaterial, the entries being sorted afterwards.
RehashAlone(ns, r, list) ==
    LET rehash == NewNodeSet(list)
        toRemove == {n \in ns : n \notin rehash}
        toAdd == {n \in rehash : n \notin ns}
        kept == IF toRemove # {} THEN removeIf(r, toRemove) ELSE r
    IN  IF toRemove = {} /\ toAdd = {}
        THEN [nodes |-> ns, ring |-> r, added |-> 0, removed |-> 0]
        ELSE [nodes |-> rehash,
              ring |-> sort(kept \o entriesOfList(Ascending(toAdd))),
              added |-> Cardinality(toAdd), removed |-> Cardinality(toRemove)]

\* ------------------------------------------------------ Builder and Ring


\* The loop of Builder.Services: b.services[svc] = true for each svc.
replaceServices(m, list) == Range(list)
addServices(m, list) == m \cup Range(list)

\* Builder.Services (and Strings, Services, BasicServices, which start with it)
Services(list) ==
    /\ obj = "Ring"
    /\ services' = addServices(services, list)
    /\ res' = [NoRes EXCEPT !.op = "Services", !.list = list,
                            !.given = res.given \cup Range(list)]
    /\ UNCHANGED <<obj, hbVars, locVars, hashVars, rings>>

\* Builder.Build.  The map of services is ranged over in any order, which the
\* sort that follows makes immaterial: it can leave every arrangement.
Build ==
    /\ obj = "Ring"
    /\ Len(rings) < MaxRings
    /\ LET r == BuildLoop(Ascending(services), EmptyRing)
       IN  \E sorted \in sortNodes(r.nodes) :
               rings' = Append(rings, [cache |-> r.cache, nodes |-> sorted])
    /\ services' = {}
    /\ res' = [NoRes EXCEPT !.op = "Build", !.next = Len(rings) + 1,
                            !.built = res.given]
    /\ UNCHANGED <<obj, hbVars, locVars, hashVars>>

\* next = &Ring{...}: a new Ring next to the ones there are.
reuseRing(rs, current, r) == [rs EXCEPT ![current] = r]
newRing(rs, current, r) == Append(rs, r)

\* Update(current, services...)
Update(current, list) ==
    /\ obj = "Ring"
    /\ current \in 1..Len(rings)
    /\ Len(rings) < MaxRings
    /\ LET acc == UpdateLoop(rings[current], list,
                             [cache |-> EmptyRing.cache, nodes |-> <<>>,
                              newCount |-> 0, existingCount |-> 0, hashed |-> <<>>])
           updated == Updated(rings[current], acc)
       IN  /\ IF updated
              THEN \E sorted \in sortNodes(acc.nodes) :
                       rings' = newRing(rings, current,
                                        [cache |-> acc.cache, nodes |-> sorted])
              ELSE rings' = rings
           /\ res' = [NoRes EXCEPT !.op = "Update", !.current = current, !.list = list,
                                    !.next = IF updated THEN Len(rings) + 1 ELSE current,
                                    !.updated = updated, !.hashed = acc.hashed,
                                    !.given = res.given]
    /\ UNCHANGED <<obj, hbVars, locVars, hashVars, services>>

\* Ring.Find(object) on the Ring r, the object being the byte k: svc and err
FindIn(r, k) ==
    IF Len(r.nodes) > 0
    THEN [svc |-> nearest(r.nodes, sum64(k)).service, err |-> "nil"]
    ELSE [svc |-> NilNode, err |-> "ErrNoServices"]

\* A call of Find on the Ring current
Find(current, k) ==
    /\ obj = "Ring"
    /\ current \in 1..Len(rings)
    /\ LET f == FindIn(rings[current], k)
       IN  res' = [NoRes EXCEPT !.op = "Find", !.current = current, !.key = k,
                                !.svc = f.svc, !.err = f.err, !.given = res.given]
    /\ UNCHANGED <<obj, hbVars, locVars, hashVars, services, rings>>

NextRing ==
    \/ \E list \in ServiceLists : Services(list)
    \/ Build
    \/ \E current \in 1..MaxRings, list \in ServiceLists : Update(current, list)
    \/ \E current \in 1..MaxRings, k \in Keys : Find(current, k)

SpecRing == InitRing /\ [][NextRing]_vars

\* ------------------------------------------------------- the Hash machine

NextHash ==
    \E t \in Threads :
        \/ \E list \in NodeLists : AddLockUpdate(t, list)
        \/ AddRLock(t) \/ AddFilter(t) \/ AddRUnlock(t)
        \/ AddLock(t) \/ AddLockAcquire(t) \/ AddReset(t) \/ AddNext(t)
        \/ AddAddAll(t) \/ AddSort(t) \/ AddUnlock(t) \/ AddUnlockUpdate(t)
        \/ \E list \in NodeLists : RemoveLockUpdate(t, list)
        \/ RemoveRLock(t) \/ RemoveFilter(t) \/ RemoveRUnlock(t)
        \/ RemoveLock(t) \/ RemoveLockAcquire(t) \/ RemoveRemoveAll(t)
        \/ RemoveRemoveIf(t) \/ RemoveSort(t) \/ RemoveUnlock(t) \/ RemoveUnlockUpdate(t)
        \/ \E list \in NodeLists : RehashLockUpdate(t, list)
        \/ RehashRLock(t) \/ RehashDiff(t) \/ RehashRUnlock(t)
        \/ RehashLock(t) \/ RehashLockAcquire(t) \/ RehashRemoveIf(t) \/ RehashReset(t)
        \/ RehashNext(t) \/ RehashAssign(t) \/ RehashSort(t) \/ RehashUnlock(t)
        \/ RehashUnlockUpdate(t)
        \/ \E k \in Keys, ok \in BOOLEAN : GetRLock(t, k, ok)
        \/ GetLen(t) \/ GetClosest(t) \/ GetRUnlock(t)
        \/ LenRLock(t) \/ LenLen(t) \/ LenRUnlock(t)

SpecHash == InitHash /\ [][NextHash]_vars

SpecHashSeq == InitHashSeq /\ [][NextHash]_vars

\* The steps of a caller inside a call.  The scheduler runs every goroutine that
\* can run, and a mutex that is free admits a goroutine waiting for it.
Proceed(t) ==
    \/ AddRLock(t) \/ AddFilter(t) \/ AddRUnlock(t)
    \/ AddLock(t) \/ AddLockAcquire(t) \/ AddReset(t) \/ AddNext(t)
    \/ AddAddAll(t) \/ AddSort(t) \/ AddUnlock(t) \/ AddUnlockUpdate(t)
    \/ RemoveRLock(t) \/ RemoveFilter(t) \/ RemoveRUnlock(t)
    \/ RemoveLock(t) \/ RemoveLockAcquire(t) \/ RemoveRemoveAll(t)
    \/ RemoveRemoveIf(t) \/ RemoveSort(t) \/ RemoveUnlock(t) \/ RemoveUnlockUpdate(t)
    \/ RehashRLock(t) \/ RehashDiff(t) \/ RehashRUnlock(t)
    \/ RehashLock(t) \/ RehashLockAcquire(t) \/ RehashRemoveIf(t) \/ RehashReset(t)
    \/ RehashNext(t) \/ RehashAssign(t) \/ RehashSort(t) \/ RehashUnlock(t)
    \/ RehashUnlockUpdate(t)
    \/ GetLen(t) \/ GetClosest(t) \/ GetRUnlock(t)
    \/ LenLen(t) \/ LenRUnlock(t)

\* A Hash whose callers are scheduled fairly.
SpecHashFair == InitHash /\ [][NextHash]_vars /\ \A t \in Threads : WF_vars(Proceed(t))

\* ------------------------------------------ the Hash used by one goroutine

\* One goroutine makes its calls one after the other; each call runs from its
\* first statement to its return.  The nodes are drawn from a larger set, and
\* the keys are as many as there are hash values.
MaxNodeAlone == 3
NodesAlone == 1..MaxNodeAlone
NodeListsAlone == SeqsUpTo(NodesAlone, MaxList)
KeysAlone == 0..(HashSpace - 1)

\* Hash.Get from its first statement to its return: [n, err]
GetAlone(r, k, ok) ==
    IF Len(r) > 0
    THEN IF ok THEN closest(r, ComputeHash(k)) ELSE [n |-> NilNode, err |-> "ErrWrite"]
    ELSE [n |-> NilNode, err |-> "ErrEmpty"]

\* The result of a call: the operation, its arguments, the caller's slice as the
\* call left it with the length of the part Filter returned as in, and what the
\* call returned.
Returned(op, list, f, count, k, got) ==
    [op |-> op, list |-> list, slice |-> f.list, in |-> f.in, count |-> count,
     key |-> k, n |-> got.n, err |-> got.err]

\* The caller's slice after Add or Remove, whose only writes to it are those of
\* NodeSet.Filter, and after Rehash, which only reads it (NewNodeSet(nodes...)).
FilteredInPlace(ns, list) == Filter(ns, list)
OnlyRead(list) == [list |-> list, in |-> 0]
NoSlice == [list |-> <<>>, in |-> 0]

Add(list) ==
    /\ obj = "HashAlone"
    /\ LET o == AddAlone(nodes, ring, list)
       IN  /\ nodes' = o.nodes
           /\ ring' = o.ring
           /\ res' = Returned("Add", list, FilteredInPlace(nodes, list), o.added, 0, [n |-> NilNode, err |-> "nil"])
    /\ pre' = [nodes |-> nodes, ring |-> ring]
    /\ UNCHANGED <<obj, hbVars, locVars, assigner, updateLock, nodeLock, thr, last, services, rings>>

Remove(list) ==
    /\ obj = "HashAlone"
    /\ LET o == RemoveAlone(nodes, ring, list)
       IN  /\ nodes' = o.nodes
           /\ ring' = o.ring
           /\ res' = Returned("Remove", list, FilteredInPlace(nodes, list), o.removed, 0, [n |-> NilNode, err |-> "nil"])
    /\ pre' = [nodes |-> nodes, ring |-> ring]
    /\ UNCHANGED <<obj, hbVars, locVars, assigner, updateLock, nodeLock, thr, last, services, rings>>

Rehash(list) ==
    /\ obj = "HashAlone"
    /\ LET o == RehashAlone(nodes, ring, list)
       IN  /\ nodes' = o.nodes
           /\ ring' = o.ring
           /\ res' = Returned("Rehash", list, OnlyRead(list), o.added + o.removed, 0,
                              [n |-> NilNode, err |-> "nil"])
    /\ pre' = [nodes |-> nodes, ring |-> ring]
    /\ UNCHANGED <<obj, hbVars, locVars, assigner, updateLock, nodeLock, thr, last, services, rings>>

\* h.nodeLock.RLock() and the RUnlock that follows it: deferred in Get, so that
\* it runs on every return, and after the read in Len.
RUnlockUnlessError(l, got) ==
    IF got.err = "nil" THEN RUnlock(RLock(l, 1), 1) ELSE RLock(l, 1)
RUnlockDeferred(l, got) == RUnlock(RLock(l, 1), 1)

NoNode == [n |-> NilNode, err |-> "nil"]

Get(k, ok) ==
    /\ obj = "HashAlone"
    /\ CanRLock(nodeLock)
    /\ LET got == GetAlone(ring, k, ok)
       IN  /\ res' = Returned("Get", <<>>, NoSlice, 0, k, got)
           /\ nodeLock' = RUnlockDeferred(nodeLock, got)
    /\ UNCHANGED <<obj, hbVars, locVars, nodes, ring, assigner, updateLock, thr, pre, last,
                   services, rings>>

\* Hash.Len
HashLen ==
    /\ obj = "HashAlone"
    /\ CanRLock(nodeLock)
    /\ res' = Returned("Len", <<>>, NoSlice, Cardinality(nodes), 0, NoNode)
    /\ nodeLock' = RUnlock(RLock(nodeLock, 1), 1)
    /\ UNCHANGED <<obj, hbVars, locVars, nodes, ring, assigner, updateLock, thr, pre, last,
                   services, rings>>

\* Hash.Algorithm: return h.alg, the algorithm ComputeHash applies
HashAlgorithm ==
    /\ obj = "HashAlone"
    /\ res' = Returned("Algorithm", <<>>, NoSlice, 0, 0, NoNode)
    /\ UNCHANGED <<obj, hbVars, locVars, hashVars, services, rings>>

\* Hash.Vnodes: return h.vnodes
HashVnodes ==
    /\ obj = "HashAlone"
    /\ res' = Returned("Vnodes", <<>>, NoSlice, Vnodes, 0, NoNode)
    /\ UNCHANGED <<obj, hbVars, locVars, hashVars, services, rings>>

NextAlone ==
    \/ \E list \in NodeListsAlone : Add(list)
    \/ \E list \in NodeListsAlone : Remove(list)
    \/ \E list \in NodeListsAlone : Rehash(list)
    \/ \E k \in KeysAlone, ok \in BOOLEAN : Get(k, ok)
    \/ HashLen
    \/ HashAlgorithm
    \/ HashVnodes

InitAlone == obj = "HashAlone" /\ New /\ AllCallers /\ NewBuilder /\ ZeroLocators /\ ZeroHashBuilder

SpecAlone == InitAlone /\ [][NextAlone]_vars

\* ---------------------------------- MultiLocator and UpdatableLocator

\* The result of a call on a locator; set is the Locator given to the last
\* Set or NewUpdatableLocator, and ever whether there was one.
LocRes(op, l, object, found, f) ==
    [op |-> op, l |-> l, object |-> object, services |-> found.services,
     consulted |-> found.consulted, svc |-> f.svc,
     err |-> IF op = "MultiLocatorFind" THEN found.err ELSE f.err,
     set |-> IF op \in {"Set", "NewUpdatableLocator"} THEN l ELSE res.set,
     ever |-> op \in {"Set", "NewUpdatableLocator"} \/ res.ever]

NoFound == [services |-> <<>>, err |-> "nil", consulted |-> 0]

MultiLocatorAdd(l) ==
    /\ obj = "Locator"
    /\ Len(locators) < MaxLocators
    /\ locators' = Append(locators, l)
    /\ res' = LocRes("Add", l, 0, NoFound, Ok(NilNode))
    /\ UNCHANGED <<obj, hbVars, hashVars, services, rings, impl, multiVars>>

MultiLocatorRemove(l) ==
    /\ obj = "Locator"
    /\ locators' = RemoveFirst(locators, l)
    /\ res' = LocRes("Remove", l, 0, NoFound, Ok(NilNode))
    /\ UNCHANGED <<obj, hbVars, hashVars, services, rings, impl, multiVars>>

MultiLocatorFind(object) ==
    /\ obj = "Locator"
    /\ res' = LocRes("MultiLocatorFind", NilLocator, object,
                     MultiFind(locators, object), Ok(NilNode))
    /\ UNCHANGED <<obj, hbVars, hashVars, services, rings, locVars>>

\* NewUpdatableLocator(impl): a new UpdatableLocator, and Set(impl) on it.
NewUpdatableLocator(l) ==
    /\ obj = "Locator"
    /\ impl' = Stored(impl, l)
    /\ res' = LocRes("NewUpdatableLocator", l, 0, NoFound, Ok(NilNode))
    /\ UNCHANGED <<obj, hbVars, hashVars, services, rings, locators, multiVars>>

Set(l) ==
    /\ obj = "Locator"
    /\ impl' = Stored(impl, l)
    /\ res' = LocRes("Set", l, 0, NoFound, Ok(NilNode))
    /\ UNCHANGED <<obj, hbVars, hashVars, services, rings, locators, multiVars>>

UpdatableLocatorFind(object) ==
    /\ obj = "Locator"
    /\ res' = LocRes("UpdatableLocatorFind", NilLocator, object, NoFound,
                     UpdatableFind(impl, object))
    /\ UNCHANGED <<obj, hbVars, hashVars, services, rings, locVars>>

NextLocator ==
    \/ \E l \in Locators : MultiLocatorAdd(l)
    \/ \E l \in Locators : MultiLocatorRemove(l)
    \/ \E object \in Objects : MultiLocatorFind(object)
    \/ \E l \in Locators \cup {NilLocator} : NewUpdatableLocator(l)
    \/ \E l \in Locators \cup {NilLocator} : Set(l)
    \/ \E object \in Objects : UpdatableLocatorFind(object)

InitLocator ==
    /\ obj = "Locator" /\ New /\ AllCallers /\ ZeroLocators /\ ZeroHashBuilder
    /\ services = {} /\ rings = <<>>
    /\ res = [op |-> "none", l |-> NilLocator, object |-> 0, services |-> <<>>,
              consulted |-> 0, svc |-> NilNode, err |-> "nil",
              set |-> NilLocator, ever |-> FALSE]

SpecLocator == InitLocator /\ [][NextLocator]_vars

\* ------------------------------- a MultiLocator shared by all the threads

InCall(t, p) == obj = "Multi" /\ calls[t].pc = p
Step(t, rec) == calls' = [calls EXCEPT ![t] = rec]

\* ml.lock.Lock(), in Add and in Remove: the writer announces itself, which
\* keeps new readers out, and has the lock when the readers have left.
MultiLock(t, op, l) ==
    /\ InCall(t, "idle")
    /\ CanLock(lock)
    /\ lock' = LockAnnounce(lock, t)
    /\ Step(t, [IdleCall EXCEPT !.pc = "Acquire", !.op = op, !.l = l])
    /\ UNCHANGED <<obj, hbVars, hashVars, ringVars, locators, impl>>

\* The call of Add and the start of its Lock.
MultiAddLock(t, l) ==
    /\ Len(locators) < MaxLocators
    /\ MultiLock(t, "Add", l)

\* The call of Remove and the start of its Lock.
MultiRemoveLock(t, l) == MultiLock(t, "Remove", l)

MultiLockAcquire(t) ==
    /\ InCall(t, "Acquire")
    /\ CanLockAcquire(lock, t)
    /\ lock' = LockAcquire(lock, t)
    /\ Step(t, [calls[t] EXCEPT !.pc = calls[t].op, !.before = locators])
    /\ UNCHANGED <<obj, hbVars, hashVars, ringVars, locators, impl>>

\* ml.locators = append(ml.locators, l)
MultiAppend(t) ==
    /\ InCall(t, "Add")
    /\ locators' = Append(locators, calls[t].l)
    /\ Step(t, [calls[t] EXCEPT !.pc = "Unlock"])
    /\ UNCHANGED <<obj, hbVars, hashVars, ringVars, impl, lock>>

\* The loop of Remove up to its first match: ml.locators[i], ml.locators[last]
\* = ml.locators[last], nil.  Without a match the loop ends and Remove returns.
MultiRemoveSwap(t) ==
    /\ InCall(t, "Remove")
    /\ LET l == calls[t].l
           end == Len(locators)
       IN  IF \E i \in 1..end : locators[i] = l
           THEN LET i == CHOOSE x \in 1..end :
                            locators[x] = l /\ \A y \in 1..(x - 1) : locators[y] # l
                IN  /\ locators' = [[locators EXCEPT ![i] = locators[end]]
                                        EXCEPT ![end] = NilLocator]
                    /\ Step(t, [calls[t] EXCEPT !.pc = "Cut"])
           ELSE /\ locators' = locators
                /\ Step(t, [calls[t] EXCEPT !.pc = "Unlock"])
    /\ UNCHANGED <<obj, hbVars, hashVars, ringVars, impl, lock>>

\* ml.locators = ml.locators[:last]
MultiRemoveCut(t) ==
    /\ InCall(t, "Cut")
    /\ locators' = SubSeq(locators, 1, Len(locators) - 1)
    /\ Step(t, [calls[t] EXCEPT !.pc = "Unlock"])
    /\ UNCHANGED <<obj, hbVars, hashVars, ringVars, impl, lock>>

\* ml.lock.Unlock(), deferred in Remove, and the return
MultiUnlock(t) ==
    /\ InCall(t, "Unlock")
    /\ lock' = Unlock(lock, t)
    /\ Step(t, IdleCall)
    /\ UNCHANGED <<obj, hbVars, hashVars, ringVars, locators, impl>>

MultiFindNoRLock(t, object) ==
    /\ InCall(t, "idle")
    /\ Step(t, [IdleCall EXCEPT !.pc = "Range", !.op = "Find", !.object = object,
                                !.before = locators])
    /\ UNCHANGED <<obj, hbVars, hashVars, ringVars, locators, impl, lock>>

\* The call of Find and ml.lock.RLock()
MultiFindRLock(t, object) ==
    /\ InCall(t, "idle")
    /\ CanRLock(lock)
    /\ lock' = RLock(lock, t)
    /\ Step(t, [IdleCall EXCEPT !.pc = "Range", !.op = "Find", !.object = object,
                                !.before = locators])
    /\ UNCHANGED <<obj, hbVars, hashVars, ringVars, locators, impl>>

\* services := make(...); for _, l := range ml.locators: the slice is read once
MultiFindRange(t) ==
    /\ InCall(t, "Range")
    /\ Step(t, [calls[t] EXCEPT !.pc = "Consult", !.i = 1, !.n = Len(locators)])
    /\ UNCHANGED <<obj, hbVars, hashVars, ringVars, locators, impl, lock>>

\* The element at i of the slice the loop ranges over; a place past the end
\* of ml.locators holds nil.
ElementAt(ls, i) == IF i <= Len(ls) THEN ls[i] ELSE NilLocator

\* One turn of the loop of Find, or what follows the loop
MultiFindConsult(t) ==
    /\ InCall(t, "Consult")
    /\ LET c == calls[t]
           l == ElementAt(locators, c.i)
           f == IF l = NilLocator THEN Failed("panic") ELSE LocatorFind(l, c.object)
       IN  IF c.i > c.n
           THEN Step(t, [c EXCEPT !.pc = "RUnlock",
                    !.out = IF Len(c.found) = 0
                            THEN [services |-> <<>>, err |-> "ErrNoServices", consulted |-> c.n]
                            ELSE [services |-> c.found, err |-> "nil", consulted |-> c.n]])
           ELSE IF f.err = "nil"
                THEN Step(t, [c EXCEPT !.i = @ + 1, !.found = Append(@, f.svc)])
                ELSE IF ~Is(f.err, "ErrNoServices")
                     THEN Step(t, [c EXCEPT !.pc = "RUnlock", !.out = halt(c.found, f, c.i)])
                     ELSE Step(t, [c EXCEPT !.i = @ + 1])
    /\ UNCHANGED <<obj, hbVars, hashVars, ringVars, locators, impl, lock>>

\* The deferred ml.lock.RUnlock() and the return
MultiFindRUnlock(t) ==
    /\ InCall(t, "RUnlock")
    /\ lock' = RUnlock(lock, t)
    /\ Step(t, IdleCall)
    /\ UNCHANGED <<obj, hbVars, hashVars, ringVars, locators, impl>>

NextMulti ==
    \E t \in Threads :
        \/ \E l \in Locators : MultiAddLock(t, l)
        \/ \E l \in Locators : MultiRemoveLock(t, l)
        \/ MultiLockAcquire(t)
        \/ MultiAppend(t)
        \/ MultiRemoveSwap(t)
        \/ MultiRemoveCut(t)
        \/ MultiUnlock(t)
        \/ \E object \in Objects : MultiFindRLock(t, object)
        \/ MultiFindRange(t)
        \/ MultiFindConsult(t)
        \/ MultiFindRUnlock(t)

InitMulti == obj = "Multi" /\ New /\ AllCallers /\ NewBuilder /\ ZeroLocators /\ ZeroHashBuilder

SpecMulti == InitMulti /\ [][NextMulti]_vars

\* ------------------------------------------------------------ New(cfg)

\* DefaultVnodes of the package, and the Vnodes a Config may ask for: from
\* -MaxVnodes to MaxVnodes.
DefaultVnodes == 211
MaxVnodes == 2

\* The names of algorithms: the empty name, the built-in ones, and names that
\* only an extension can define.
Builtins == {"fnv", "murmur3"}
AlgorithmNames == {""} \cup Builtins \cup {"custom", "other"}
ExtensionKeys == {"murmur3", "custom", "other"}

Configs ==
    [Algorithm : AlgorithmNames, Vnodes : (0 - MaxVnodes)..MaxVnodes,
     Extensions : SUBSET ExtensionKeys]

\* medley.FindAlgorithm(name, extensions): the empty name is the default
\* algorithm, a built-in name its algorithm, any other name the extension of
\* that name, and an error when there is none.
FindAlgorithm(name, extensions) ==
    IF name = "" THEN [alg |-> [of |-> "builtin", name |-> "murmur3"], err |-> "nil"]
    ELSE IF name \in Builtins THEN [alg |-> [of |-> "builtin", name |-> name], err |-> "nil"]
    ELSE IF name \in extensions THEN [alg |-> [of |-> "extension", name |-> name], err |-> "nil"]
    ELSE [alg |-> [of |-> "none", name |-> name], err |-> "ErrUnknownAlgorithm"]

\* if cfg.Vnodes < 1 { cfg.Vnodes = DefaultVnodes }
vnodesAsConfigured(cfg) == cfg.Vnodes
vnodesOf(cfg) == IF cfg.Vnodes < 1 THEN DefaultVnodes ELSE cfg.Vnodes

\* No Hash, and New(cfg): the Hash, or none, and the error.
NilHash == [alg |-> [of |-> "none", name |-> ""], vnodes |-> 0, nodes |-> {}, ring |-> <<>>]
NewHash(cfg) ==
    LET f == FindAlgorithm(cfg.Algorithm, cfg.Extensions)
    IN  IF f.err = "nil"
        THEN [nil |-> FALSE, err |-> "nil",
              h |-> [alg |-> f.alg, vnodes |-> vnodesOf(cfg), nodes |-> {}, ring |-> <<>>]]
        ELSE [nil |-> TRUE, err |-> f.err, h |-> NilHash]

\* The result of New, and of Len and Vnodes on the Hash that New returned
Made(op, cfg, made, l, v) ==
    [op |-> op, cfg |-> cfg, nil |-> made.nil, h |-> made.h, err |-> made.err,
     l |-> l, v |-> v]

NewFromConfig(cfg) ==
    /\ obj = "New"
    /\ res' = Made("New", cfg, NewHash(cfg), 0, 0)
    /\ nodes' = NewHash(cfg).h.nodes
    /\ ring' = NewHash(cfg).h.ring
    /\ UNCHANGED <<obj, hbVars, locVars, assigner, updateLock, nodeLock, thr, pre, last, services, rings>>

\* h.Len() on the Hash returned by the last New
LenOfNew ==
    /\ obj = "New"
    /\ res.op # "none" /\ ~res.nil
    /\ res' = [res EXCEPT !.op = "Len", !.l = Cardinality(nodes)]
    /\ UNCHANGED <<obj, hbVars, locVars, hashVars, services, rings>>

\* h.Vnodes() on the Hash returned by the last New
VnodesOfNew ==
    /\ obj = "New"
    /\ res.op # "none" /\ ~res.nil
    /\ res' = [res EXCEPT !.op = "Vnodes", !.v = res.h.vnodes]
    /\ UNCHANGED <<obj, hbVars, locVars, hashVars, services, rings>>

NextNew ==
    \/ \E cfg \in Configs : NewFromConfig(cfg)
    \/ LenOfNew
    \/ VnodesOfNew

InitNew ==
    /\ obj = "New" /\ New /\ AllCallers /\ ZeroLocators /\ ZeroHashBuilder
    /\ services = {} /\ rings = <<>>
    /\ res = [op |-> "none"]

SpecNew == InitNew /\ [][NextNew]_vars

\* ------------------------------------------------------------ HashBuilder

\* The destinations a HashBuilder is given, each a new io.Writer, and the most
\* bytes one of them takes in a run.
MaxDst == 2
MaxWritten == 8
Dsts == 1..MaxDst

\* What a destination's Write returns besides nil.
WriteErrors == {"ErrClosed", "ErrShortWrite"}

\* The values written: byte slices and strings of at most one byte, and
\* unsigned integers of one and of two significant bytes.
ByteSlices == {<<>>, <<1>>}
Uint8s == {0, 1}
Uints == {1, 257}

\* buf[0] = byte(v >> 8*(n-1)) ... buf[n-1] = byte(v): v in n bytes, big endian
RECURSIVE BigEndian(_, _)
BigEndian(v, n) ==
    IF n = 0 THEN <<>> ELSE Append(BigEndian(v \div 256, n - 1), v % 256)

\* if hb.err == nil
neverLatched(err) == FALSE
latched(err) == err # "nil"

\* _, hb.err = hb.dst.Write(v), guarded by hb.err == nil (and by more, in
\* WriteString).  The destination returns out, having taken all of v when out
\* is nil and the first k bytes of it otherwise.
writeTo(h, w, v, guard, out, k) ==
    IF ~latched(h.err) /\ guard
    THEN [hb |-> [h EXCEPT !.err = out],
          written |-> w \o (IF out = "nil" THEN v ELSE SubSeq(v, 1, k))]
    ELSE [hb |-> h, written |-> w]

\* The last call on the HashBuilder: the value it was given, what the
\* destination's Write would return, and what the call returned.
Called(op, d, v, out, err) == [op |-> op, dst |-> d, v |-> v, out |-> out, err |-> err]

\* A WriteXXX call of the bytes v.
WriteBytes(op, v, guard, out, k) ==
    /\ obj = "HashBuilder"
    /\ Len(written) + Len(v) <= MaxWritten
    /\ out = "nil" \/ k < Len(v) \/ k = 0
    /\ LET o == writeTo(hb, written, v, guard, out, k)
       IN  /\ hb' = o.hb
           /\ written' = o.written
    /\ res' = Called(op, hb.dst, v, out, "nil")
    /\ UNCHANGED <<obj, hashVars, services, rings, locVars>>

\* HashBuilder.Use
Use(d) ==
    /\ obj = "HashBuilder"
    /\ hb' = [dst |-> d, err |-> "nil"]
    /\ written' = <<>>
    /\ res' = Called("Use", d, <<>>, "nil", "nil")
    /\ UNCHANGED <<obj, hashVars, services, rings, locVars>>

\* HashBuilder.Err
Err ==
    /\ obj = "HashBuilder"
    /\ res' = Called("Err", hb.dst, <<>>, "nil", hb.err)
    /\ UNCHANGED <<obj, hashVars, services, rings, locVars, hbVars>>

Write(v, out, k) == WriteBytes("Write", v, TRUE, out, k)

\* if hb.err == nil && len(v) > 0
WriteString(v, out, k) == WriteBytes("WriteString", v, Len(v) > 0, out, k)

WriteUint8(v, out, k) == WriteBytes("WriteUint8", BigEndian(v, 1), TRUE, out, k)
WriteUint16(v, out, k) == WriteBytes("WriteUint16", BigEndian(v, 2), TRUE, out, k)
WriteUint32(v, out, k) == WriteBytes("WriteUint32", BigEndian(v, 4), TRUE, out, k)
WriteUint64(v, out, k) == WriteBytes("WriteUint64", BigEndian(v, 8), TRUE, out, k)

\* if hb.err == nil { hb = hb.WriteUint32(math.Float32bits(v)) }: v is given by
\* its bits
WriteFloat32(v, out, k) == WriteBytes("WriteFloat32", BigEndian(v, 4), ~latched(hb.err), out, k)
WriteFloat64(v, out, k) == WriteBytes("WriteFloat64", BigEndian(v, 8), ~latched(hb.err), out, k)

Outs == {"nil"} \cup WriteErrors

NextBuilder ==
    \/ \E d \in Dsts : Use(d)
    \/ Err
    \/ \E v \in ByteSlices, out \in Outs, k \in 0..1 : Write(v, out, k)
    \/ \E v \in ByteSlices, out \in Outs, k \in 0..1 : WriteString(v, out, k)
    \/ \E v \in Uint8s, out \in Outs, k \in 0..1 : WriteUint8(v, out, k)
    \/ \E v \in Uints, out \in Outs, k \in 0..2 : WriteUint16(v, out, k)
    \/ \E v \in Uints, out \in Outs, k \in 0..4 : WriteUint32(v, out, k)
    \/ \E v \in Uints, out \in Outs, k \in 0..8 : WriteUint64(v, out, k)
    \/ \E v \in Uints, out \in Outs, k \in 0..4 : WriteFloat32(v, out, k)
    \/ \E v \in Uints, out \in Outs, k \in 0..8 : WriteFloat64(v, out, k)

\* NewHashBuilder(dst), for each destination
InitBuilder ==
    /\ obj = "HashBuilder" /\ New /\ AllCallers /\ ZeroLocators
    /\ services = {} /\ rings = <<>>
    /\ written = <<>>
    /\ \E d \in Dsts :
          /\ hb = [dst |-> d, err |-> "nil"]
          /\ res = Called("NewHashBuilder", d, <<>>, "nil", "nil")

SpecBuilder == InitBuilder /\ [][NextBuilder]_vars

\* A program works on a Hash or on a Builder and its Rings.
Init == obj \in {"Hash", "Ring"} /\ New /\ AllCallers /\ NewBuilder /\ ZeroLocators /\ ZeroHashBuilder

Next == NextHash \/ NextRing

Spec == Init /\ [][Next]_vars

\* ================================================================= claims

\* The ring is in ascending order of Value, equal Values in ascending order of Node.
IsSorted(r) ==
    \A i \in 1..(Len(r) - 1) :
        \/ r[i].Value < r[i + 1].Value
        \/ r[i].Value = r[i + 1].Value /\ r[i].Node <= r[i + 1].Node

\* The nodes of a Ring are in ascending order of token.
IsSortedByToken(ns) == \A i \in 1..(Len(ns) - 1) : ns[i].token <= ns[i + 1].token

\* ... and nodes of equal token in ascending order of service.
IsSortedByTokenService(ns) ==
    \A i \in 1..(Len(ns) - 1) :
        \/ ns[i].token < ns[i + 1].token
        \/ ns[i].token = ns[i + 1].token /\ ns[i].service <= ns[i + 1].service

\* A mutation of the Hash is between taking the write lock and its sort.
Splicing(t) ==
    /\ obj = "Hash"
    /\ thr[t].pc \in {"AddReset", "AddNext", "AddAddAll", "AddSort",
                      "RemoveRemoveAll", "RemoveRemoveIf", "RemoveSort",
                      "RehashRemoveIf", "RehashReset", "RehashNext", "RehashAssign",
                      "RehashSort"}

\* A mutation has done all its work and is about to return.
AddDone(t) == obj = "Hash" /\ thr[t].pc = "AddUnlockUpdate"
RemoveDone(t) == obj = "Hash" /\ thr[t].pc = "RemoveUnlockUpdate"
RehashDone(t) == obj = "Hash" /\ thr[t].pc = "RehashUnlockUpdate"

\* The entries of a ring owned by a node, in ring order.
EntriesOf(r, n) == SelectSeq(r, LAMBDA e : e.Node = n)

Owners(r) == {r[i].Node : i \in 1..Len(r)}

\* Get has the read lock and looks at the ring.
Searching(t) == obj = "Hash" /\ thr[t].pc \in {"GetLen", "GetClosest"}

\* Get is about to return thr[t].n and thr[t].err.
GetDone(t) == obj = "Hash" /\ thr[t].pc = "GetRUnlock"

\* C1: after any sequence of Add, Remove and Rehash, a Get whose key is written
\* without error returns a member of the current node set, and it returns an
\* error, the empty-ring error, exactly when the node set is empty.
C1_GetReturnsMember ==
    \A t \in Threads :
        (GetDone(t) /\ thr[t].keyOk) =>
            /\ (thr[t].err # "nil") <=> (nodes = {})
            /\ thr[t].err \in {"nil", "ErrEmpty"}
            /\ (thr[t].err = "nil") => (thr[t].n \in nodes)

\* A Get over two nodes whose key hashes beyond the last entry and wraps around.
C1_Witness ==
    \E t \in Threads :
        /\ GetDone(t) /\ thr[t].keyOk /\ thr[t].err = "nil"
        /\ Cardinality(nodes) = 2
        /\ \A i \in 1..Len(ring) : ring[i].Value < ComputeHash(thr[t].key)
        /\ thr[t].n = ring[1].Node

ServicesOf(i) == DOMAIN rings[i].cache

\* C3: Update returns true and a new Ring, distinct from current, whose services
\* are exactly those given, whenever the given services differ as a set from
\* current's.
C3_UpdateReturnsNewRing ==
    (res.op = "Update" /\ Range(res.list) # ServicesOf(res.current)) =>
        /\ res.updated
        /\ res.next # res.current
        /\ ServicesOf(res.next) = Range(res.list)

\* C4: Update returns the identical current Ring and false whenever the given
\* services are, as a set, the services of current.
C4_UpdateSameSetIsNoop ==
    (res.op = "Update" /\ Range(res.list) = ServicesOf(res.current)) =>
        /\ ~res.updated
        /\ res.next = res.current

\* The concatenation of the cached nodes of the services of a set.
RECURSIVE CacheNodes(_, _)
CacheNodes(cache, list) ==
    IF list = <<>> THEN <<>> ELSE cache[Head(list)] \o CacheNodes(cache, Tail(list))

\* C5: in every Ring returned by Build or Update the node array holds exactly
\* the tokens of the cache: every cached service owns vnodes entries, there are
\* no other entries, and the length is vnodes times the number of services.
C5_NodesAreTheCache ==
    \A i \in 1..Len(rings) :
        /\ IsPerm(rings[i].nodes, CacheNodes(rings[i].cache, Ascending(ServicesOf(i))))
        /\ \A svc \in ServicesOf(i) :
               Len(SelectSeq(rings[i].nodes, LAMBDA e : e.service = svc)) = Vnodes
        /\ Len(rings[i].nodes) = Vnodes * Cardinality(ServicesOf(i))

\* C6: Add returns the number of nodes it added: Len() grows by the returned
\* count, every node of the list is a member afterwards, and the nodes that
\* were members stay members and keep their tokens.
C6_AddReturnsAdded ==
    \A t \in Threads :
        AddDone(t) =>
            /\ Cardinality(nodes) = Cardinality(pre.nodes) + thr[t].added
            /\ Range(thr[t].arg) \subseteq nodes
            /\ \A n \in pre.nodes :
                   n \in nodes /\ EntriesOf(ring, n) = EntriesOf(pre.ring, n)

\* C7: Remove returns the number of nodes it removed: Len() shrinks by the
\* returned count, no node of the list is a member afterwards, no entry of the
\* ring is owned by a removed node, and the other members keep their tokens.
C7_RemoveReturnsRemoved ==
    \A t \in Threads :
        RemoveDone(t) =>
            /\ Cardinality(nodes) = Cardinality(pre.nodes) - thr[t].removed
            /\ Range(thr[t].arg) \cap nodes = {}
            /\ Range(thr[t].arg) \cap Owners(ring) = {}
            /\ \A n \in pre.nodes \ Range(thr[t].arg) :
                   n \in nodes /\ EntriesOf(ring, n) = EntriesOf(pre.ring, n)

\* C8: after Rehash the node set is the set of the distinct nodes of the list,
\* the ring holds tokens of those nodes only, and the counts returned are the
\* listed nodes that were not members and the members that were not listed.
C8_RehashReplaces ==
    \A t \in Threads :
        RehashDone(t) =>
            /\ nodes = Range(thr[t].arg)
            /\ Owners(ring) \subseteq Range(thr[t].arg)
            /\ thr[t].added = Cardinality(Range(thr[t].arg) \ pre.nodes)
            /\ thr[t].removed = Cardinality(pre.nodes \ Range(thr[t].arg))

\* A Rehash that both added and removed nodes.
C8_Witness ==
    \E t \in Threads : RehashDone(t) /\ thr[t].added > 0 /\ thr[t].removed > 0

GetResults(r) == [k \in Keys |-> closest(r, ComputeHash(k))]

\* C9: a second Add with the list of the Add before it returns 0 and leaves the
\* node set, the ring and every Get result as they were; likewise a second
\* Remove with the list of the Remove before it.
C9_AddRemoveIdempotent ==
    \A t \in Threads :
        /\ (AddDone(t) /\ last.op = "Add" /\ last.bag = BagOf(thr[t].arg)) =>
               /\ thr[t].added = 0
               /\ nodes = pre.nodes /\ ring = pre.ring
               /\ GetResults(ring) = GetResults(pre.ring)
        /\ (RemoveDone(t) /\ last.op = "Remove" /\ last.bag = BagOf(thr[t].arg)) =>
               /\ thr[t].removed = 0
               /\ nodes = pre.nodes /\ ring = pre.ring
               /\ GetResults(ring) = GetResults(pre.ring)

\* A second Add of two different nodes, after the Add that added them.
C9_Witness ==
    \E t \in Threads :
        /\ AddDone(t) /\ last.op = "Add" /\ last.bag = BagOf(thr[t].arg)
        /\ Cardinality(Range(thr[t].arg)) = 2

\* C10: a Get never searches the ring between the first append or removal of a
\* mutation and its sort: the ring it searches is sorted, no mutation is in
\* that stretch, the ring is the one from before the running mutation or the
\* one that mutation has finished, and every node has all of its tokens or none.
C10_GetSeesWholeMutations ==
    \A t \in Threads :
        Searching(t) =>
            /\ IsSorted(ring)
            /\ \A u \in Threads : ~Splicing(u)
            /\ \/ ring = pre.ring
               \/ \E u \in Threads : AddDone(u) \/ RemoveDone(u) \/ RehashDone(u)
            /\ \A n \in Nodes :
                   /\ Len(EntriesOf(ring, n)) % Vnodes = 0
                   /\ (n \in nodes) <=> (EntriesOf(ring, n) # <<>>)

\* A Get searches while a mutation waits for the write lock.
C10_Witness ==
    \E t, u \in Threads :
        /\ Searching(t) /\ Len(ring) > 0
        /\ nodeLock.pending = u
        /\ thr[u].pc \in {"AddLockAcquire", "RemoveLockAcquire", "RehashLockAcquire"}

\* The arrangements of the list a mutation was called with (Filter permutes it).
Arrangements(list) == {l \in NodeLists : BagOf(l) = BagOf(list)}

\* What a mutation leaves and returns: the node set, the ring and the counts.
Outcome(t) ==
    [nodes |-> nodes, ring |-> ring, added |-> thr[t].added, removed |-> thr[t].removed]

\* C11: concurrent Add, Remove and Rehash calls leave the node set and the ring
\* and return the values of the same calls run one at a time, in the order in
\* which they took the update lock: each call ends with what it would have left
\* and returned had it run alone from the state the call before it left, and
\* nothing changes the node set or the ring between two calls.
C11_MutationsSerialize ==
    /\ (obj = "Hash" /\ updateLock = NoThread) => (nodes = pre.nodes /\ ring = pre.ring)
    /\ \A t \in Threads :
           /\ AddDone(t) =>
                  \A l \in Arrangements(thr[t].arg) :
                      Outcome(t) = AddAlone(pre.nodes, pre.ring, l)
           /\ RemoveDone(t) =>
                  \A l \in Arrangements(thr[t].arg) :
                      Outcome(t) = RemoveAlone(pre.nodes, pre.ring, l)
           /\ RehashDone(t) =>
                  \A l \in Arrangements(thr[t].arg) :
                      Outcome(t) = RehashAlone(pre.nodes, pre.ring, l)

\* A Remove that took a node out ends while another caller is inside Get, after
\* an earlier mutation had put two nodes in.
C11_Witness ==
    \E t, u \in Threads :
        /\ RemoveDone(t) /\ thr[t].removed = 1 /\ Cardinality(pre.nodes) = 2
        /\ thr[u].op = "Get" /\ thr[u].pc = "GetRUnlock"

\* The thread holds the update lock and the node write lock, and no reader is in.
HoldsBoth(t) == updateLock = t /\ nodeLock.w = t /\ nodeLock.readers = {}

\* C12: the ring and the node set are written only by a thread that holds the
\* update lock and the node write lock: a thread between its first append or
\* removal and its sort holds both, no reader holds the read lock meanwhile, at
\* most one thread is there, and every step that changes the ring or the node
\* set is a step of such a thread.
C12_WritersHoldBothLocks ==
    /\ [](\A t \in Threads : Splicing(t) => HoldsBoth(t))
    /\ [](Cardinality({t \in Threads : Splicing(t)}) <= 1)
    /\ [][(nodes' # nodes \/ ring' # ring) =>
               \E t \in Threads : thr'[t] # thr[t] /\ Splicing(t) /\ HoldsBoth(t)]_vars

\* An Add has appended its entries and added its nodes, and is about to sort.
C12_Witness ==
    \E t \in Threads :
        /\ At(t, "AddSort") /\ HoldsBoth(t)
        /\ ring # pre.ring /\ nodes # pre.nodes

\* The thread holds the node lock, for reading or for writing, or waits for it
\* as the announced writer.
HoldsNode(t) == t \in nodeLock.readers \/ nodeLock.w = t \/ nodeLock.pending = t

Mutating(t) == obj = "Hash" /\ thr[t].op \in {"Add", "Remove", "Rehash"}

\* C13: the update lock is taken before the node lock.  A thread outside every
\* call, whose next statement may be updateLock.Lock(), holds no node lock; a
\* thread inside Add, Remove or Rehash holds the node lock only while it holds
\* the update lock; and the step that gives a thread the update lock is never
\* taken by a holder of the node lock.
C13_UpdateLockFirst ==
    /\ [](\A t \in Threads : (obj = "Hash" /\ thr[t].pc = "idle") => ~HoldsNode(t))
    /\ [](\A t \in Threads : (Mutating(t) /\ HoldsNode(t)) => updateLock = t)
    /\ [][\A t \in Threads : (updateLock # t /\ updateLock' = t) => ~HoldsNode(t)]_vars

\* A Remove holds the update lock and reads the node set under the read lock,
\* which a Get holds as well.
C13_Witness ==
    \E t, u \in Threads :
        /\ At(t, "RemoveFilter") /\ updateLock = t /\ t \in nodeLock.readers
        /\ Searching(u) /\ u \in nodeLock.readers

\* C14: under fair scheduling every call of Get, Len, Add, Remove and Rehash
\* returns, and it returns holding no lock; no interleaving deadlocks.  A call
\* in progress comes to its return, while calls are in progress one of them can
\* take a step, each lock is free again and again for the callers waiting to
\* enter, and a thread outside every call holds nothing.
C14_EveryCallReturns ==
    /\ \A t \in Threads : (obj = "Hash" /\ thr[t].pc # "idle") ~> (thr[t].pc = "idle")
    /\ []((\E t \in Threads : obj = "Hash" /\ thr[t].pc # "idle") =>
              \E u \in Threads : ENABLED Proceed(u))
    /\ []<>(updateLock = NoThread)
    /\ []<>CanRLock(nodeLock)
    /\ [](\A t \in Threads :
              (obj = "Hash" /\ thr[t].pc = "idle") => (updateLock # t /\ ~HoldsNode(t)))

\* A Rehash waits for the write lock while a Len holds the read lock.
C14_Witness ==
    \E t, u \in Threads :
        /\ At(t, "RehashLockAcquire") /\ nodeLock.pending = t
        /\ At(u, "LenLen") /\ u \in nodeLock.readers

\* A mutation works out what to add or remove: it has the update lock and has
\* not yet asked for the write lock.
Computing(t) ==
    /\ obj = "Hash"
    /\ thr[t].pc \in {"AddRLock", "AddFilter", "AddRUnlock", "AddLock",
                      "RemoveRLock", "RemoveFilter", "RemoveRUnlock", "RemoveLock",
                      "RehashRLock", "RehashDiff", "RehashRUnlock", "RehashLock"}

\* C15: while an Add, Remove or Rehash works out which nodes to add or remove,
\* before it asks for the node write lock, another caller's Get can take the
\* read lock, and a Get that has it can take each of its steps up to its
\* return: it does not wait for the mutation.
C15_GetRunsWhileComputing ==
    \A t, u \in Threads :
        (t # u /\ Computing(t)) =>
            /\ thr[u].pc = "idle" => \A k \in Keys : ENABLED GetRLock(u, k, TRUE)
            /\ thr[u].pc = "GetLen" => ENABLED GetLen(u)
            /\ thr[u].pc = "GetClosest" => ENABLED GetClosest(u)
            /\ thr[u].pc = "GetRUnlock" => ENABLED GetRUnlock(u)

\* A Get has found a node while a Rehash compares the node set under the read lock.
C15_Witness ==
    \E t, u \in Threads :
        /\ At(t, "RehashDiff") /\ t \in nodeLock.readers
        /\ GetDone(u) /\ thr[u].err = "nil" /\ u \in nodeLock.readers

InGet(t) == obj = "Hash" /\ thr[t].op = "Get" /\ thr[t].pc # "idle"

\* C16: Get takes the node read lock and nothing else, so Gets run their lookups
\* side by side and none waits for another.  A caller inside Get holds the read
\* lock and neither the update lock nor the write lock; no step of a Get
\* touches the update lock; a Get is kept from entering only by a writer that
\* holds or has asked for the write lock, whatever Gets are inside; and a Get
\* that is inside can always take its next step.
C16_GetsDoNotWaitForGets ==
    /\ [](\A t \in Threads :
              InGet(t) => /\ t \in nodeLock.readers
                          /\ updateLock # t /\ nodeLock.w # t /\ nodeLock.pending # t
                          /\ ENABLED (GetLen(t) \/ GetClosest(t) \/ GetRUnlock(t)))
    /\ [](\A u \in Threads : \A k \in Keys :
              (obj = "Hash" /\ thr[u].pc = "idle") =>
                  ((ENABLED GetRLock(u, k, TRUE)) <=>
                       (nodeLock.w = NoThread /\ nodeLock.pending = NoThread)))
    /\ [][\A t \in Threads :
               (thr'[t] # thr[t] /\ (InGet(t) \/ InGet(t)')) => updateLock' = updateLock]_vars

\* Two callers are inside the lookup of Get at the same time.
C16_Witness ==
    \A t \in Threads : At(t, "GetClosest") /\ t \in nodeLock.readers

\* The call of the thread has nothing to do: every node given to Add is a
\* member, no node given to Remove is one, the nodes given to Rehash are the
\* members.  (pre.nodes is the node set the call found.)
NothingToDo(t) ==
    /\ Mutating(t)
    /\ thr[t].op = "Add" => Range(thr[t].arg) \subseteq pre.nodes
    /\ thr[t].op = "Remove" => Range(thr[t].arg) \cap pre.nodes = {}
    /\ thr[t].op = "Rehash" => Range(thr[t].arg) = pre.nodes

\* C17: a mutation with nothing to do never takes, nor asks for, the node write
\* lock, leaves the node set and the ring as they were, and returns 0 (Rehash:
\* 0 and 0).
C17_NoopTakesNoWriteLock ==
    \A t \in Threads :
        NothingToDo(t) =>
            /\ nodeLock.w # t /\ nodeLock.pending # t
            /\ nodes = pre.nodes /\ ring = pre.ring
            /\ (AddDone(t) \/ RemoveDone(t) \/ RehashDone(t)) =>
                   (thr[t].added = 0 /\ thr[t].removed = 0)

\* A Rehash with the two members, in a list that repeats one of them, is about
\* to return.
C17_Witness ==
    \E t \in Threads :
        /\ RehashDone(t) /\ NothingToDo(t)
        /\ Cardinality(pre.nodes) = 2

\* C18: on every Ring that Build or Update produced, Find returns a service of
\* the Ring, and it returns ErrNoServices exactly when the Ring has no services.
C18_FindReturnsService ==
    res.op = "Find" =>
        /\ res.err \in {"nil", "ErrNoServices"}
        /\ (res.err = "ErrNoServices") <=> (ServicesOf(res.current) = {})
        /\ (res.err = "nil") => (res.svc \in ServicesOf(res.current))

\* Find on a Ring of two services, not the first Ring made, with an object that
\* hashes beyond the last token and wraps around to the first node.
C18_Witness ==
    /\ res.op = "Find" /\ res.err = "nil"
    /\ res.current > 1
    /\ Cardinality(ServicesOf(res.current)) = 2
    /\ \A i \in 1..Len(rings[res.current].nodes) :
           rings[res.current].nodes[i].token < sum64(res.key)
    /\ res.svc = rings[res.current].nodes[1].service

\* C19: Update never modifies the current Ring, nor any other Ring there is:
\* across every call of Update the node array, contents and order, and the
\* cache of each Ring, and what Find returns on it for every key, stay the same.
C19_UpdateLeavesCurrent ==
    [][(res'.op = "Update" /\ (res' # res \/ rings' # rings)) =>
           \A i \in 1..Len(rings) :
               /\ i \in 1..Len(rings')
               /\ rings'[i].nodes = rings[i].nodes
               /\ rings'[i].cache = rings[i].cache
               /\ \A k \in Keys : FindIn(rings'[i], k) = FindIn(rings[i], k)]_vars

\* Update has made a new Ring, of other nodes, from a Ring that has services.
C19_Witness ==
    /\ res.op = "Update" /\ res.updated
    /\ ServicesOf(res.current) # {}
    /\ rings[res.next].nodes # rings[res.current].nodes

\* C20: for every service that is both in current and among the services given
\* to Update, the tokens of that service in the Ring returned are the ones that
\* current has cached, and they are not computed again; tokens are computed for
\* the given services that are not in current, and for no other.
C20_CachedTokensReused ==
    res.op = "Update" =>
        LET cur == rings[res.current]
            nxt == rings[res.next]
        IN  /\ \A svc \in Range(res.list) \cap DOMAIN cur.cache :
                   /\ svc \notin Range(res.hashed)
                   /\ svc \in DOMAIN nxt.cache
                   /\ nxt.cache[svc] = cur.cache[svc]
                   /\ {n \in Range(nxt.nodes) : n.service = svc} = Range(cur.cache[svc])
            /\ Range(res.hashed) = Range(res.list) \ DOMAIN cur.cache

\* Update has made a new Ring from services of which one was in current and
\* another was not.
C20_Witness ==
    /\ res.op = "Update" /\ res.updated
    /\ Range(res.list) \cap ServicesOf(res.current) # {}
    /\ Range(res.list) \ ServicesOf(res.current) # {}
    /\ res.next # res.current

\* The Rings that Build may return for the set S of services.
BuildOf(S) ==
    LET r == BuildLoop(Ascending(S), EmptyRing)
    IN  {[cache |-> r.cache, nodes |-> sorted] : sorted \in sortNodes(r.nodes)}

\* C21: Find is determined by the set of services alone: the Ring that Update
\* returns gives, for every key, the service that a Ring made by Build over the
\* same services gives, also when two services have a token of equal value.
C21_FindBySetAlone ==
    res.op = "Update" =>
        \A b \in BuildOf(ServicesOf(res.next)) :
            \A k \in Keys : FindIn(rings[res.next], k) = FindIn(b, k)

\* What Get returns for every key on the ring r
GetAll(r) == [k \in KeysAlone |-> GetAlone(r, k, TRUE)]

\* C22: a change of membership reassigns only the keys it must: after Add of
\* the one node n every key has the Get result it had before or has n, and
\* after Remove of the one node n every key whose Get result was not n has the
\* result it had before.
C22_OnlyNecessaryKeysMove ==
    /\ (res.op = "Add" /\ Len(res.list) = 1) =>
           \A k \in KeysAlone :
               \/ GetAll(ring)[k] = GetAll(pre.ring)[k]
               \/ GetAll(ring)[k] = [n |-> res.list[1], err |-> "nil"]
    /\ (res.op = "Remove" /\ Len(res.list) = 1) =>
           \A k \in KeysAlone :
               GetAll(pre.ring)[k] # [n |-> res.list[1], err |-> "nil"] =>
                   GetAll(ring)[k] = GetAll(pre.ring)[k]

\* An Add of one node to a Hash of two members has given one key to the new
\* node and has left to each of the two a key it had.
C22_Witness ==
    /\ res.op = "Add" /\ Len(res.list) = 1 /\ Cardinality(pre.nodes) = 2
    /\ \E k \in KeysAlone : /\ GetAll(ring)[k].n = res.list[1]
                             /\ GetAll(pre.ring)[k].n # res.list[1]
    /\ \A m \in pre.nodes :
           \E k \in KeysAlone : GetAll(ring)[k].n = m /\ GetAll(pre.ring)[k].n = m

\* The entries of r whose value is at least v, and whether the entry at i is
\* the first of a set of entries in the order of (value, node).
AtOrAfter(r, v) == {i \in 1..Len(r) : r[i].Value >= v}
FirstOf(r, I, i) ==
    /\ i \in I
    /\ \A j \in I : \/ r[i].Value < r[j].Value
                     \/ (r[i].Value = r[j].Value /\ r[i].Node <= r[j].Node)

\* C23: on the ring of a Hash, which is sorted when no mutation is at work,
\* closest(v) returns the owner of the first entry in (value, node) order whose
\* value is at least v, so that the smallest node wins among entries of equal
\* value; the owner of entry 0 when no value is at least v; an error and the
\* empty node when the ring is empty.
C23_ClosestIsFirstAtOrAfter ==
    obj = "HashAlone" =>
        \A v \in 0..(HashSpace - 1) :
            LET c == closest(ring, v)
            IN  IF ring = <<>> THEN c.n = NilNode /\ c.err # "nil"
                ELSE /\ c.err = "nil"
                     /\ IF AtOrAfter(ring, v) # {}
                        THEN \E i \in AtOrAfter(ring, v) :
                                 FirstOf(ring, AtOrAfter(ring, v), i) /\ c.n = ring[i].Node
                        ELSE c.n = ring[1].Node

\* Get has returned the smaller of two nodes that have an entry of the same
\* value, the first at or after the hash of the key, in a ring in which some
\* hash comes after every entry.
C23_Witness ==
    /\ res.op = "Get" /\ res.err = "nil"
    /\ \E i, j \in 1..Len(ring) :
           /\ ring[i].Value = ring[j].Value /\ ring[i].Node < ring[j].Node
           /\ FirstOf(ring, AtOrAfter(ring, ComputeHash(res.key)), i)
           /\ res.n = ring[i].Node
    /\ \E v \in 0..(HashSpace - 1) : AtOrAfter(ring, v) = {}

\* C24: Services is cumulative and ignores duplicates, and Build resets the
\* Builder: the Ring that Build returns has exactly the distinct services given
\* since the Build before it, and a Build that follows a Build, no Services in
\* between, returns another Ring, which is empty.
C24_BuildTakesWhatWasGiven ==
    /\ [](res.op = "Build" =>
             /\ ServicesOf(res.next) = res.built
             /\ services = {})
    /\ [](res.op = "Services" => services = res.given)
    /\ [][(res.op = "Build" /\ res'.op = "Build") =>
             /\ res'.next # res.next
             /\ res'.next \notin 1..Len(rings)
             /\ rings'[res'.next] = EmptyRing]_vars

\* Build, not the first, has returned a Ring of two services.
C24_Witness ==
    /\ res.op = "Build" /\ res.next > 1
    /\ Cardinality(res.built) = 2
    /\ \E i \in 1..(res.next - 1) : ServicesOf(i) # {} /\ ServicesOf(i) # res.built

\* What each locator of the MultiLocator returns for the object of the last
\* Find, and the kinds of result: a service, no services, another error.
Answers == [i \in 1..Len(locators) |-> LocatorFind(locators[i], res.object)]
Succeeded(a) == a.err = "nil"
NoServices(a) == a.err \in {"ErrNoServices", "ErrWrapsNoServices"}
OtherError(a) == ~Succeeded(a) /\ ~NoServices(a)

\* C25: MultiLocator.Find returns ErrNoServices if and only if every locator it
\* holds returned ErrNoServices, as is the case when it holds none; when no
\* locator returns another error and at least one succeeds, it returns the
\* services of the locators that succeeded, one for each of them.
C25_NoServicesIffAllNone ==
    res.op = "MultiLocatorFind" =>
        /\ res.err = "ErrNoServices" <=> \A i \in 1..Len(locators) : NoServices(Answers[i])
        /\ ((\A i \in 1..Len(locators) : ~OtherError(Answers[i]))
              /\ (\E i \in 1..Len(locators) : Succeeded(Answers[i]))) =>
               /\ res.err = "nil"
               /\ IsPerm(res.services,
                         [j \in 1..Len(SelectSeq(Answers, Succeeded)) |->
                             SelectSeq(Answers, Succeeded)[j].svc])

\* Find on three locators, of which one had no services and two returned
\* different services.
C25_Witness ==
    /\ res.op = "MultiLocatorFind" /\ Len(locators) = 3
    /\ \E i \in 1..3 : NoServices(Answers[i])
    /\ \E i, j \in 1..3 : /\ Succeeded(Answers[i]) /\ Succeeded(Answers[j])
                           /\ Answers[i].svc # Answers[j].svc
    /\ Len(res.services) = 2

\* C26: MultiLocator.Find halts at the first locator that returns an error
\* other than ErrNoServices: it returns no services and that error, and the
\* locators after that one are not consulted.
C26_HaltsAtFirstOtherError ==
    (res.op = "MultiLocatorFind" /\ \E i \in 1..Len(locators) : OtherError(Answers[i])) =>
        LET first == CHOOSE i \in 1..Len(locators) :
                         OtherError(Answers[i]) /\ \A j \in 1..(i - 1) : ~OtherError(Answers[j])
        IN  /\ res.err = Answers[first].err
            /\ res.services = <<>>
            /\ res.consulted = first

\* Find on three locators: the first returned a service, the second an error
\* and the third another error.
C26_Witness ==
    /\ res.op = "MultiLocatorFind" /\ Len(locators) = 3
    /\ Succeeded(Answers[1]) /\ OtherError(Answers[2]) /\ OtherError(Answers[3])
    /\ Answers[2].err # Answers[3].err
    /\ res.err = Answers[2].err /\ res.consulted = 2

\* C27: UpdatableLocator.Find returns, unchanged, the service and the error
\* that the Locator given to the most recent Set, or to the constructor,
\* returns for the object; it returns ErrNoServices when no Locator was ever
\* set and when the most recent Set was given nil.
C27_FindDelegatesToLastSet ==
    res.op = "UpdatableLocatorFind" =>
        IF res.ever /\ res.set # NilLocator
        THEN [svc |-> res.svc, err |-> res.err] = LocatorFind(res.set, res.object)
        ELSE res.svc = NilNode /\ res.err = "ErrNoServices"

\* Find has returned both the service and the error of the Locator set.
C27_Witness ==
    /\ res.op = "UpdatableLocatorFind" /\ res.ever /\ res.set # NilLocator
    /\ res.svc # NilNode /\ res.err # "nil"

\* The algorithm name of a Config is set and is neither built-in nor a key of
\* the Extensions.
UnknownName(cfg) ==
    /\ cfg.Algorithm # ""
    /\ cfg.Algorithm \notin {"fnv", "murmur3"}
    /\ cfg.Algorithm \notin cfg.Extensions

\* C28: New returns an error and a nil Hash when the algorithm name
\* configured is neither a built-in nor a key of Extensions; when it succeeds,
\* Len() of the Hash is 0 and Vnodes() is the value configured, or
\* DefaultVnodes when that value is less than 1.
C28_NewChecksTheAlgorithm ==
    /\ (res.op = "New" /\ UnknownName(res.cfg)) => (res.err # "nil" /\ res.nil)
    /\ (res.op = "New" /\ res.err = "nil") => ~res.nil /\ ~UnknownName(res.cfg)
    /\ res.op = "Len" => res.l = 0
    /\ res.op = "Vnodes" =>
           res.v = IF res.cfg.Vnodes < 1 THEN DefaultVnodes ELSE res.cfg.Vnodes

\* Vnodes() of a Hash made from a Config that names an extension and asks for
\* no vnodes.
C28_Witness ==
    /\ res.op = "Vnodes" /\ res.v = DefaultVnodes
    /\ res.cfg.Vnodes = 0
    /\ res.cfg.Algorithm = "custom"

\* The hash of the decimal text of k, then '=', then the bytes of n.
TokenOf(n, k) == Sum64(AppendInt(k) \o <<61>> \o NodeBytes(n))

\* The node for which a mutation is calling next.
NodeInHand(t) == IF thr[t].op = "Add" THEN thr[t].arg[thr[t].i] ELSE thr[t].n

\* The next call of next is the k-th after reset(n), k being the count of the
\* loop of the mutation and n the node it handles.
NextIsByNodeAndIndex ==
    \A t \in Threads :
        (obj = "Hash" /\ thr[t].pc \in {"AddNext", "RehashNext"}) =>
            /\ thr[t].r \in 0..(Vnodes - 1)
            /\ AssignerNext(assigner.node, assigner.index) = TokenOf(NodeInHand(t), thr[t].r)

\* C29: tokens are a function of the node and the index alone: the k-th call
\* of next after reset(n) returns the hash of the decimal text of k, '=' and
\* the bytes of n, and Add and Rehash call next exactly vnodes times for each
\* new node, which so receives the tokens of the indices 0..vnodes-1 whatever
\* the assigner handled before.
C29_TokensByNodeAndIndex ==
    /\ NextIsByNodeAndIndex
    /\ \A t \in Threads :
           (AddDone(t) \/ RehashDone(t)) =>
               \A n \in nodes \ pre.nodes :
                   /\ Len(EntriesOf(ring, n)) = Vnodes
                   /\ {e.Value : e \in Range(EntriesOf(ring, n))} =
                          {TokenOf(n, k) : k \in 0..(Vnodes - 1)}

\* C30: whenever no mutation is in progress the ring holds exactly Vnodes()
\* entries for each member of the node set and none for any other node, so its
\* size is Len() times Vnodes(); this after any sequence of Add, Remove and
\* Rehash with any lists, those that repeat a node included.
C30_RingMatchesNodes ==
    (obj = "Hash" /\ updateLock = NoThread) =>
        /\ \A n \in Nodes :
               Len(EntriesOf(ring, n)) = IF n \in nodes THEN Vnodes ELSE 0
        /\ Owners(ring) \subseteq nodes
        /\ Len(ring) = Cardinality(nodes) * Vnodes

\* A mutation has read the node set and has not yet begun to apply its change.
Decided(t) ==
    /\ obj = "Hash"
    /\ thr[t].pc \in {"AddRUnlock", "AddLock", "AddLockAcquire",
                      "RemoveRUnlock", "RemoveLock", "RemoveLockAcquire",
                      "RehashRUnlock", "RehashLock", "RehashLockAcquire"}

\* C31: between the moment an Add, Remove or Rehash reads the node set and the
\* moment it applies its change, no other call changes the node set or the
\* ring; hence Add calls that name the same new node give it one set of tokens,
\* and the count each returns is the number of nodes it made members.
C31_NoChangeBetweenReadAndApply ==
    /\ [](\A t \in Threads : Decided(t) => nodes = pre.nodes /\ ring = pre.ring)
    /\ [][\A t \in Threads :
             (Decided(t) /\ thr'[t] = thr[t]) => (nodes' = nodes /\ ring' = ring)]_vars
    /\ [](\A t \in Threads :
             AddDone(t) =>
                 /\ thr[t].added = Cardinality(nodes \ pre.nodes)
                 /\ \A n \in nodes \ pre.nodes : Len(EntriesOf(ring, n)) = Vnodes
                 /\ \A n \in pre.nodes : EntriesOf(ring, n) = EntriesOf(pre.ring, n))

\* A caller is between a reset of the assigner and the last next of its node.
Assigning(t) == obj = "Hash" /\ thr[t].pc \in {"AddNext", "RehashNext"}

\* The node a caller is adding tokens for.
AssignedNode(t) == IF thr[t].pc = "AddNext" THEN thr[t].arg[thr[t].i] ELSE thr[t].n

\* C32: the assigner of a Hash is used only by the thread that holds the update
\* lock. A caller between a reset and the last next of its node holds the update
\* lock, so no two callers are there together, and the assigner stands at that
\* caller's node and index; every step that changes the assigner is a reset or a
\* next of the holder of the update lock; no step of a Get changes the assigner.
C32_AssignerUnderUpdateLock ==
    /\ [](\A t \in Threads :
             Assigning(t) =>
                 /\ updateLock = t
                 /\ assigner = [node |-> AssignedNode(t), index |-> thr[t].r]
                 /\ \A u \in Threads \ {t} : ~Assigning(u))
    /\ [][assigner' # assigner =>
             \E t \in Threads :
                 /\ updateLock = t
                 /\ thr[t].pc \in {"AddReset", "AddNext", "RehashReset", "RehashNext"}
                 /\ thr'[t] # thr[t]]_vars
    /\ [][\A t \in Threads :
             (thr'[t] # thr[t] /\ (thr[t].op = "Get" \/ thr'[t].op = "Get"))
                 => assigner' = assigner]_vars

\* A caller is at the second token of a node it adds to a Hash that has nodes
\* already.
C32_Witness ==
    /\ obj = "Hash"
    /\ \E t \in Threads :
         /\ Assigning(t)
         /\ thr[t].r = 1
         /\ nodes # {}

\* C33: Rehash leaves the caller's slice as it was, element by element; Add and
\* Remove leave it with the same length and the same nodes, each as many times
\* as before, possibly in another order.
C33_CallersSlice ==
    obj = "HashAlone" =>
        /\ res.op = "Rehash" => res.slice = res.list
        /\ res.op \in {"Add", "Remove"} => IsPerm(res.slice, res.list)

\* An Add or a Remove has reordered the caller's slice.
C33_Witness ==
    /\ obj = "HashAlone"
    /\ res.op \in {"Add", "Remove"}
    /\ res.slice # res.list
    /\ res.count > 0

\* A Rehash that changed the Hash was given a list of several nodes.
C33_WitnessRehash ==
    /\ obj = "HashAlone"
    /\ res.op = "Rehash"
    /\ Len(res.list) > 1
    /\ res.count > 0

\* The calls that only read the Hash.
Readers == {"Get", "Len", "Algorithm", "Vnodes"}

\* What the Hash would answer to a later Get of every key and to Len, and
\* whether its locks could be taken, from its fields.  The answers of Add,
\* Remove and Rehash are functions of the node set and the ring.
AnswersOf(ns, r, l, u) ==
    [get |-> [k \in KeysAlone |-> [ok \in BOOLEAN |-> GetAlone(r, k, ok)]],
     len |-> Cardinality(ns),
     locks |-> <<CanRLock(l), CanLock(l), l.readers, u = NoThread>>]

\* C34: Get, Len, Algorithm and Vnodes leave the node set and the ring as they
\* were, and leave both locks and the assigner as they were, so that after any
\* of them, a Get that returned an error included, every later call is answered
\* as it would have been without it.
C34_ReadersChangeNothing ==
    [][(obj = "HashAlone" /\ res'.op \in Readers) =>
          /\ nodes' = nodes
          /\ ring' = ring
          /\ assigner' = assigner /\ updateLock' = updateLock /\ nodeLock' = nodeLock
          /\ AnswersOf(nodes', ring', nodeLock', updateLock') =
                 AnswersOf(nodes, ring, nodeLock, updateLock)]_vars

\* A Get on a Hash that has nodes has returned the error of the key's write.
C34_Witness ==
    /\ obj = "HashAlone"
    /\ res.op = "Get"
    /\ res.err = "ErrWrite"
    /\ Len(ring) > 0

\* A Get on an empty Hash, after nodes were added and removed, has returned
\* ErrEmpty.
C34_WitnessEmpty ==
    /\ obj = "HashAlone"
    /\ res.op = "Get"
    /\ res.err = "ErrEmpty"
    /\ pre.nodes # {}

\* in and notIn as the last Add or Remove got them from Filter, and the nodes of
\* the caller's list that were and were not in the set, in the caller's order.
InPart == SubSeq(res.slice, 1, res.in)
NotInPart == SubSeq(res.slice, res.in + 1, Len(res.slice))
PresentOf(list, ns) == LET Present(n) == n \in ns IN SelectSeq(list, Present)
AbsentOf(list, ns) == LET Absent(n) == n \notin ns IN SelectSeq(list, Absent)

\* C35: Filter partitions the slice in place: in is a prefix of the slice and
\* notIn the rest of it, the slice is a permutation of what it was, every node of
\* in is in the set and no node of notIn is.
C35_FilterPartitions ==
    (obj = "HashAlone" /\ res.op \in {"Add", "Remove"}) =>
        /\ res.in \in 0..Len(res.slice)
        /\ InPart \o NotInPart = res.slice
        /\ IsPerm(res.slice, res.list)
        /\ \A n \in Range(InPart) : n \in pre.nodes
        /\ \A n \in Range(NotInPart) : n \notin pre.nodes

\* Filter has moved a node of the set in front of one that is not in it.
C35_Witness ==
    /\ obj = "HashAlone"
    /\ res.op \in {"Add", "Remove"}
    /\ res.in = 1
    /\ Len(res.slice) = 2
    /\ res.slice # res.list

\* C36 as stated: each part of the partition Add performs keeps the order the
\* nodes had in the caller's list.
C36_StablePartition ==
    (obj = "HashAlone" /\ res.op = "Add") =>
        /\ InPart = PresentOf(res.list, pre.nodes)
        /\ NotInPart = AbsentOf(res.list, pre.nodes)

\* C36: the already-present part holds the nodes of the list that were in the
\* set and the not-present part those that were not, each as many times as in
\* the list; the order within a part may differ from the caller's.
C36_PartsArePermutations ==
    (obj = "HashAlone" /\ res.op = "Add") =>
        /\ IsPerm(InPart, PresentOf(res.list, pre.nodes))
        /\ IsPerm(NotInPart, AbsentOf(res.list, pre.nodes))

\* An Add of two new nodes has left them in the other order.
C36_Witness ==
    /\ obj = "HashAlone"
    /\ res.op = "Add"
    /\ res.count = 2
    /\ NotInPart # AbsentOf(res.list, pre.nodes)

\* The entries of a ring whose node is not in p, in the ring's order.
KeptOf(r, p) == LET Kept(e) == e.Node \notin p IN SelectSeq(r, Kept)

\* C37: removeIf removes exactly the entries whose node satisfies the predicate.
\* For the ring of the Hash and every set of nodes as the predicate, the result
\* is shorter by the number of matching entries, holds no matching entry, and
\* holds the other entries, each as many times as before, in some order; and
\* the ring a Remove has left is that result for the nodes it removed, sorted.
C37_RemoveIfRemovesExactly ==
    obj = "HashAlone" =>
        /\ \A p \in SUBSET NodesAlone :
              LET out == removeIf(ring, p)
              IN  /\ Len(out) = Len(ring) - Cardinality({i \in 1..Len(ring) : ring[i].Node \in p})
                  /\ \A i \in 1..Len(out) : out[i].Node \notin p
                  /\ IsPerm(out, KeptOf(ring, p))
        /\ (res.op = "Remove" /\ res.count > 0) =>
              /\ IsPerm(ring, KeptOf(pre.ring, Range(InPart)))
              /\ \A i \in 1..Len(ring) : ring[i].Node \notin Range(InPart)

\* A Remove has taken entries from the middle of the ring, and removeIf left
\* the others in another order than they had.
C37_Witness ==
    /\ obj = "HashAlone"
    /\ res.op = "Remove"
    /\ res.count > 0
    /\ Len(ring) > 0
    /\ removeIf(pre.ring, Range(InPart)) # KeptOf(pre.ring, Range(InPart))

\* C38: for the same algorithm, vnode count and owner bytes, the tokens of the
\* Hash's assigner (reset, then vnodes calls of next) are those of the Ring
\* hasher's serviceNodes, index by index.  When a mutation is about to call next
\* for the r-th time since the reset for its node, next yields the token of the
\* r-th ring node serviceNodes makes for that owner, and the entries appended
\* since the reset are the ring nodes before it, in order.
C38_AssignerMatchesServiceNodes ==
    \A t \in Threads :
        Assigning(t) =>
            LET snodes == serviceNodes(AssignedNode(t))
                r == thr[t].r
            IN  /\ Len(snodes) = Vnodes
                /\ r < Vnodes
                /\ base(AssignedNode(t)) = NodeBytes(AssignedNode(t))
                /\ AssignerNext(assigner.node, assigner.index) = snodes[r + 1].token
                /\ \A k \in 1..r :
                      ring[Len(ring) - r + k] = hashEntry(snodes[k].service, snodes[k].token)

\* A mutation is about to take the last token of a node, and the entry before
\* those appended since the reset is of another node.
C38_Witness ==
    /\ obj = "Hash"
    /\ \E t \in Threads :
          /\ Assigning(t)
          /\ thr[t].r = Vnodes - 1
          /\ Len(ring) >= 2 * Vnodes - 1
          /\ ring[Len(ring) - Vnodes + 1].Node # AssignedNode(t)

\* A caller is in a Find, between its RLock and its RUnlock.
Finding(t) == obj = "Multi" /\ calls[t].pc \in {"Range", "Consult", "RUnlock"}

\* A caller is in Add or Remove, between its Lock and its Unlock.
Changing(t) == obj = "Multi" /\ calls[t].pc \in {"Add", "Remove", "Cut", "Unlock"}

\* The locators of a list as a bag.
LocatorBag(ls) == [l \in Locators \cup {NilLocator} |-> Count(ls, l)]

\* C39: MultiLocator is safe for concurrent use.  While a Find runs the list is
\* the one it found when it took the read lock, so every Add and Remove takes
\* effect entirely before or entirely after it, and the Find returns what a
\* Find alone returns on that list; while an Add or a Remove changes the list
\* no other caller reads or changes it; a finished Remove has taken out the
\* first occurrence of its locator, putting the last locator in its place, and
\* nothing when the locator was absent, every other locator staying; a finished
\* Add has appended its locator.
C39_MultiLocatorConcurrent ==
    \A t \in Threads :
        /\ Finding(t) =>
              /\ locators = calls[t].before
              /\ NilLocator \notin Range(locators)
              /\ \A u \in Threads : ~Changing(u)
        /\ (Finding(t) /\ calls[t].pc = "RUnlock") =>
              calls[t].out = MultiFind(calls[t].before, calls[t].object)
        /\ Changing(t) => \A u \in Threads \ {t} : ~Changing(u)
        /\ (Changing(t) /\ calls[t].pc = "Unlock" /\ calls[t].op = "Remove") =>
              LET l == calls[t].l
                  before == calls[t].before
              IN  /\ locators = RemoveFirst(before, l)
                  /\ Count(before, l) = 0 => locators = before
                  /\ Count(before, l) > 0 =>
                        /\ Len(locators) = Len(before) - 1
                        /\ LocatorBag(locators) =
                               [LocatorBag(before) EXCEPT ![l] = @ - 1]
                        /\ \E i \in 1..Len(before) :
                              /\ before[i] = l
                              /\ \A j \in 1..(i - 1) : before[j] # l /\ locators[j] = before[j]
        /\ (Changing(t) /\ calls[t].pc = "Unlock" /\ calls[t].op = "Add") =>
              locators = Append(calls[t].before, calls[t].l)

\* A Find is at the second locator of a list that holds a locator twice, and a
\* Remove of that locator waits for its Lock.
C39_Witness ==
    /\ obj = "Multi"
    /\ \E t \in Threads, u \in Threads :
          /\ calls[t].pc = "Consult"
          /\ calls[t].i = 2
          /\ calls[u].pc = "Acquire"
          /\ calls[u].op = "Remove"
          /\ Count(locators, calls[u].l) = 2

\* A Remove has taken the first of two occurrences out of a list of three.
C39_WitnessRemoved ==
    /\ obj = "Multi"
    /\ \E t \in Threads :
          /\ calls[t].pc = "Unlock"
          /\ calls[t].op = "Remove"
          /\ Len(calls[t].before) = 3
          /\ Count(calls[t].before, calls[t].l) = 2
          /\ locators # SubSeq(calls[t].before, 1, 2)

\* The calls that write a value.
Writes ==
    {"Write", "WriteString", "WriteUint8", "WriteUint16", "WriteUint32", "WriteUint64",
     "WriteFloat32", "WriteFloat64"}

\* C40: a HashBuilder latches its first error.  Once it holds an error, a
\* WriteXXX call leaves the destination's bytes and the error as they were; Err
\* returns the error held and changes nothing; the error held changes only
\* from none to the error a destination's Write returned, or by Use, which
\* installs the destination it is given and clears the error.
C40_FirstErrorLatched ==
    /\ [][(obj = "HashBuilder" /\ hb.err # "nil" /\ res'.op \in Writes) =>
             (written' = written /\ hb' = hb)]_vars
    /\ [][(obj = "HashBuilder" /\ res'.op = "Err") =>
             (res'.err = hb.err /\ hb' = hb /\ written' = written)]_vars
    /\ [][(obj = "HashBuilder" /\ hb'.err # hb.err) =>
             \/ res'.op = "Use" /\ hb'.err = "nil"
             \/ res'.op \in Writes /\ hb.err = "nil" /\ hb'.err = res'.out]_vars
    /\ [][(obj = "HashBuilder" /\ res'.op = "Use") =>
             hb' = [dst |-> res'.dst, err |-> "nil"]]_vars

\* After a Write failed on a destination that took some bytes, a later
\* WriteXXX, whose destination would have returned another result, was ignored.
C40_Witness ==
    /\ obj = "HashBuilder"
    /\ res.op \in Writes
    /\ hb.err = "ErrClosed"
    /\ res.out # "ErrClosed"
    /\ Len(res.v) > 0
    /\ Len(written) > 0
====
